---- MODULE Spec2Model ----
(***************************************************************************)
(* Stream ingestion and stage-progression engine of the Somnia stream      *)
(* visualiser (hook useSomniaStreams).                                     *)
(*                                                                         *)
(* Strings that the code builds or compares (transaction hashes, packet    *)
(* ids, block hashes, messages) are tuples here: a hash is <<c>> with c a  *)
(* one-character string, the synthetic id `tx_${now}_${index}` is          *)
(* <<"tx_", now, index>>, the empty string is <<>>.  An optional value     *)
(* (error?, lastBlockTime?, tx.hash, tx.value, tx.to) is <<>> when absent  *)
(* and <<v>> when present.                                                 *)
(***************************************************************************)
EXTENDS Integers, Sequences, FiniteSets, TLC

VARIABLES
    streams,             \* useState<StreamPacket[]>
    stats,               \* useState<StreamStats>
    connectionInfo,      \* useState<ConnectionInfo>
    txCounterRef,        \* useRef(0)
    lastUpdateTimeRef,   \* useRef(Date.now())
    lastBlockNumberRef,  \* useRef(0n): the cursor
    now,                 \* Date.now()
    chainHead,           \* block source: current chain head
    awaitingHead,        \* number of fetchAndProcessBlock runs suspended at getBlockNumber
    awaitingBlock,       \* per block number, the runs suspended at getBlock for it
    event,               \* the event handled last: timer, settled promise, with its value
    intervals,           \* the intervals armed by setInterval and not cleared
    mounted,             \* FALSE once the effect's cleanup function has run
    unwatch,             \* websocket engine: the watchBlocks subscription
    lastProcessedBlock,  \* websocket engine: the cursor of the fallback poller
    onBlockRuns,         \* websocket engine: onBlock handlers suspended at getBlock
    initialPoll,         \* websocket engine: setupPolling suspended at `await pollBlocks()`
    lastPushedBlock,     \* websocket engine: highest block number ingested by onBlock
    arg,                 \* pure-function harness: the input drawn by Init
    ret                  \* pure-function harness: the result of the applied function

vars == <<streams, stats, connectionInfo, txCounterRef, lastUpdateTimeRef,
          lastBlockNumberRef, now, chainHead, awaitingHead, awaitingBlock,
          event, intervals, mounted, unwatch, lastProcessedBlock, onBlockRuns,
          initialPoll, lastPushedBlock, arg, ret>>

lifeVars == <<intervals, mounted>>

wsVars == <<unwatch, lastProcessedBlock, onBlockRuns, initialPoll, lastPushedBlock>>

(***************************************************************************)
(* Program constants.  MAX_STREAMS (100 in the source) and                 *)
(* MAX_TX_PER_BLOCK (50 in the source) are scaled down, keeping            *)
(* MAX_TX_PER_BLOCK < MAX_STREAMS.                                         *)
(***************************************************************************)
STAGE_DURATION == 300
MAX_STREAMS == 3
MAX_TX_PER_BLOCK == 2

(***************************************************************************)
(* Bounds of the model.                                                    *)
(***************************************************************************)
StartTime == 1000        \* Date.now() when the hook mounts
MaxClockSteps == 3       \* the clock advances at most this many times
MaxHead == 3             \* the chain head grows at most to this number
MaxInflight == 2         \* invocations of fetchAndProcessBlock suspended at once
ClockStep == STAGE_DURATION
MaxNow == StartTime + MaxClockSteps * ClockStep

BLOCK_FETCH_INTERVAL == 3000
WINDOW == 10000              \* timeElapsed > 10, in milliseconds
MaxWindowSteps == 4
MaxWindowNow == StartTime + MaxWindowSteps * BLOCK_FETCH_INTERVAL

PROGRESSION_INTERVAL == 400  \* the period given to setInterval for the progression
TimeUnit == PROGRESSION_INTERVAL \div 2
MaxIngestSteps == 1
LastIngestTime == StartTime + MaxIngestSteps * TimeUnit
MaxTimedNow == LastIngestTime + TimeUnit + 4 * PROGRESSION_INTERVAL

Absent == <<>>
Some(v) == <<v>>
EmptyString == <<>>

Min(a, b) == IF a < b THEN a ELSE b

(***************************************************************************)
(* StreamStatus and the two tables over it.                                *)
(***************************************************************************)
StreamStatus == {"streamed", "indexed", "consolidated", "finalized"}

statusOrder(s) ==
    CASE s = "streamed" -> 0
      [] s = "indexed" -> 1
      [] s = "consolidated" -> 2
      [] s = "finalized" -> 3

\* a wrong entry in the table: consolidated wraps around
getNextStatus_wraps(currentStatus) ==
    CASE currentStatus = "streamed" -> "indexed"
      [] currentStatus = "indexed" -> "consolidated"
      [] currentStatus = "consolidated" -> "streamed"
      [] currentStatus = "finalized" -> "finalized"

getNextStatus(currentStatus) ==
    CASE currentStatus = "streamed" -> "indexed"
      [] currentStatus = "indexed" -> "consolidated"
      [] currentStatus = "consolidated" -> "finalized"
      [] currentStatus = "finalized" -> "finalized"

(***************************************************************************)
(* deduplicateStreams: one pass over the input with a Map id -> packet.    *)
(* A JavaScript Map iterates in the order in which its keys were first     *)
(* inserted, and set() on a present key keeps the key's place: `seen` is   *)
(* the sequence of the Map's values in that order.                         *)
(***************************************************************************)
seenIndex(seen, id) ==
    IF \E i \in 1..Len(seen) : seen[i].id = id
    THEN CHOOSE i \in 1..Len(seen) : seen[i].id = id
    ELSE 0

RECURSIVE dedupLoop(_, _)
dedupLoop(seen, rest) ==
    IF rest = <<>> THEN seen
    ELSE LET stream == Head(rest)
             i == seenIndex(seen, stream.id)
         IN  IF i = 0
             THEN dedupLoop(Append(seen, stream), Tail(rest))
             ELSE IF statusOrder(stream.status) > statusOrder(seen[i].status)
                  THEN dedupLoop([seen EXCEPT ![i] = stream], Tail(rest))
                  ELSE dedupLoop(seen, Tail(rest))

\* no deduplication at all
deduplicateStreams_identity(s) == s

Reverse(s) == [i \in 1..Len(s) |-> s[Len(s) + 1 - i]]

\* the result collected newest key first
deduplicateStreams_reversed(s) == Reverse(dedupLoop(<<>>, s))

\* >= in place of >: on equal status the later packet replaces the earlier
RECURSIVE dedupLoopLast(_, _)
dedupLoopLast(seen, rest) ==
    IF rest = <<>> THEN seen
    ELSE LET stream == Head(rest)
             i == seenIndex(seen, stream.id)
         IN  IF i = 0
             THEN dedupLoopLast(Append(seen, stream), Tail(rest))
             ELSE IF statusOrder(stream.status) >= statusOrder(seen[i].status)
                  THEN dedupLoopLast([seen EXCEPT ![i] = stream], Tail(rest))
                  ELSE dedupLoopLast(seen, Tail(rest))

deduplicateStreams_lastWins(s) == dedupLoopLast(<<>>, s)

\* the first packet of each id kept, whatever the statuses
RECURSIVE dedupLoopFirst(_, _)
dedupLoopFirst(seen, rest) ==
    IF rest = <<>> THEN seen
    ELSE IF seenIndex(seen, Head(rest).id) = 0
         THEN dedupLoopFirst(Append(seen, Head(rest)), Tail(rest))
         ELSE dedupLoopFirst(seen, Tail(rest))

deduplicateStreams_firstWins(s) == dedupLoopFirst(<<>>, s)

deduplicateStreams(s) == dedupLoop(<<>>, s)

(***************************************************************************)
(* The progression tick's state updater (the callback given to setStreams  *)
(* by progressionInterval): map, evict on overflow, deduplicate.           *)
(***************************************************************************)
Truthy(n) == n # 0       \* JavaScript truthiness of a number

\* a finalized packet keeps counting confirmations
\* a map callback that also restamps the packet it advances
progressStream_restamps(stream, t) ==
    IF stream.status = "finalized"
    THEN [stream EXCEPT !.confirmations = 3]
    ELSE IF Truthy(stream.lastStageTime) /\ t - stream.lastStageTime >= STAGE_DURATION
              /\ getNextStatus(stream.status) # stream.status
         THEN [stream EXCEPT !.status = getNextStatus(stream.status),
                             !.lastStageTime = t,
                             !.timestamp = t,
                             !.confirmations = stream.confirmations + 1]
         ELSE stream

progressStream_countsOn(stream, t) ==
    IF stream.status = "finalized"
    THEN [stream EXCEPT !.confirmations = @ + 1]
    ELSE IF Truthy(stream.lastStageTime) /\ t - stream.lastStageTime >= STAGE_DURATION
         THEN [stream EXCEPT !.status = getNextStatus(stream.status),
                             !.lastStageTime = t,
                             !.confirmations = @ + 1]
         ELSE stream

\* a map callback that waits two stage durations before it advances a packet
progressStream_slow(stream, t) ==
    IF stream.status = "finalized"
    THEN [stream EXCEPT !.confirmations = 3]
    ELSE IF Truthy(stream.lastStageTime) /\ t - stream.lastStageTime >= 2 * STAGE_DURATION
              /\ getNextStatus(stream.status) # stream.status
         THEN [stream EXCEPT !.status = getNextStatus(stream.status),
                             !.lastStageTime = t,
                             !.confirmations = stream.confirmations + 1]
         ELSE stream

\* a map callback that advances a packet without counting the confirmation
progressStream_noCount(stream, t) ==
    IF stream.status = "finalized"
    THEN [stream EXCEPT !.confirmations = 3]
    ELSE IF Truthy(stream.lastStageTime) /\ t - stream.lastStageTime >= STAGE_DURATION
              /\ getNextStatus(stream.status) # stream.status
         THEN [stream EXCEPT !.status = getNextStatus(stream.status),
                             !.lastStageTime = t]
         ELSE stream

progressStream(stream, t) ==
    IF stream.status = "finalized"
    THEN [stream EXCEPT !.confirmations = 3]
    ELSE IF Truthy(stream.lastStageTime) /\ t - stream.lastStageTime >= STAGE_DURATION
         THEN LET nextStatus == getNextStatus(stream.status)
              IN  IF nextStatus # stream.status
                  THEN [stream EXCEPT !.status = nextStatus,
                                      !.lastStageTime = t,
                                      !.confirmations = @ + 1]
                  ELSE stream
         ELSE stream

RemoveAt(s, i) == SubSeq(s, 1, i - 1) \o SubSeq(s, i + 1, Len(s))

finalizedIndices(s) == {i \in 1..Len(s) : s[i].status = "finalized"}

SetMax(S) == CHOOSE x \in S : \A y \in S : y <= x

\* an eviction that takes the first finalized index
evictOverflow_first(updatedStreams) ==
    IF Len(updatedStreams) > MAX_STREAMS
    THEN IF finalizedIndices(updatedStreams) # {}
         THEN RemoveAt(updatedStreams,
                       CHOOSE x \in finalizedIndices(updatedStreams) :
                           \A y \in finalizedIndices(updatedStreams) : x <= y)
         ELSE SubSeq(updatedStreams, 1, Len(updatedStreams) - 1)
    ELSE updatedStreams

\* an eviction that already acts on a full collection
evictOverflow_atCapacity(updatedStreams) ==
    IF Len(updatedStreams) >= MAX_STREAMS
    THEN IF finalizedIndices(updatedStreams) # {}
         THEN RemoveAt(updatedStreams, SetMax(finalizedIndices(updatedStreams)))
         ELSE SubSeq(updatedStreams, 1, Len(updatedStreams) - 1)
    ELSE updatedStreams

evictOverflow(updatedStreams) ==
    IF Len(updatedStreams) > MAX_STREAMS
    THEN IF finalizedIndices(updatedStreams) # {}
         THEN RemoveAt(updatedStreams, SetMax(finalizedIndices(updatedStreams)))
         ELSE SubSeq(updatedStreams, 1, Len(updatedStreams) - 1)
    ELSE updatedStreams

progressionUpdater(prevStreams, t) ==
    deduplicateStreams(
        evictOverflow([i \in 1..Len(prevStreams) |-> progressStream(prevStreams[i], t)]))

(***************************************************************************)
(* Transactions, blocks and the conversion of a transaction to a packet.   *)
(* tx.value is a bigint of wei; Wei(k, r) stands for k * 10^15 + r wei     *)
(* with r small, so 0.01 native units is Wei(HighValueThreshold, 0).       *)
(***************************************************************************)
HighValueThreshold == 10

Wei(k, r) == [units |-> k, rest |-> r]

\* Number(bigint): the nearest double, ties to the even mantissa.  Below
\* 2^53 (k <= 9) every integer is a double; from 2^53 to 2^54
\* (10 <= k <= 18) the doubles are the even integers; from 2^54 to 2^55
\* (19 <= k <= 36) they are the multiples of 4.  k * 10^15 is a multiple
\* of 8, so only r is rounded.
NumberOf(v) ==
    LET r == v.rest
    IN  IF v.units <= 9 THEN v
        ELSE IF v.units <= 18
        THEN Wei(v.units, IF r % 2 = 0 THEN r
                          ELSE IF (r + 1) % 4 = 0 THEN r + 1 ELSE r - 1)
        ELSE Wei(v.units, CASE r % 4 = 0 -> r
                            [] r % 4 = 1 -> r - 1
                            [] r % 4 = 2 -> IF r % 8 = 2 THEN r - 2 ELSE r + 2
                            [] r % 4 = 3 -> r + 1)

\* n / 1e18 > 0.01 for a double n: the quotient of 10^16 is the double
\* 0.01 itself, and the quotient of the next double above 10^16 is above it
exceedsThreshold(n) ==
    \/ n.units > HighValueThreshold
    \/ n.units = HighValueThreshold /\ n.rest > 0

ToLowerCaseChar(c) ==
    CASE c = "A" -> "a"
      [] c = "B" -> "b"
      [] c = "C" -> "c"
      [] c = "D" -> "d"
      [] OTHER -> c

\* String.prototype.toLowerCase on a hash <<c>>; a synthetic id has no upper case
toLowerCase(str) ==
    IF Len(str) = 1 THEN <<ToLowerCaseChar(str[1])>> ELSE str

Tx(h, v, f, t) == [hash |-> h, value |-> v, from |-> f, to |-> t]

txValue(tx) ==          \* tx.value ? Number(tx.value) / 1e18 : 0
    IF tx.value # Absent /\ (Truthy(tx.value[1].units) \/ Truthy(tx.value[1].rest))
    THEN NumberOf(tx.value[1])
    ELSE Wei(0, 0)

\* txValue.toFixed(6), in millionths of a native unit: the wei below 10^15
\* of Wei(k, r) are under half a millionth
toFixed6(n) == n.units * 1000

\* an id that keeps the spelling of the hash
txId_keepsCase(tx, t, index) ==
    IF tx.hash # Absent THEN tx.hash[1] ELSE <<"tx_", t, index>>

txId(tx, t, index) ==   \* (tx.hash || `tx_${now}_${index}`).toLowerCase()
    toLowerCase(IF tx.hash # Absent THEN tx.hash[1] ELSE <<"tx_", t, index>>)

toStreamPacket(tx, index, t, block) ==
    [ id |-> txId(tx, t, index),
      status |-> "streamed",
      timestamp |-> t,
      eventType |-> IF exceedsThreshold(txValue(tx)) THEN "Transfer" ELSE "Transaction",
      source |-> IF tx.from # Absent THEN tx.from[1] ELSE "0x0",
      data |-> [ to |-> IF tx.to # Absent THEN tx.to[1] ELSE "Contract Creation",
                 value |-> toFixed6(txValue(tx)),
                 type |-> IF tx.to # Absent THEN "Transfer" ELSE "Contract Deploy" ],
      confirmations |-> 0,
      hash |-> txId(tx, t, index),
      lastStageTime |-> t,
      blockNumber |-> block.number ]

\* every transaction of the block, without the slice
txsToShow_all(block) == block.transactions

txsToShow(block) ==     \* block.transactions.slice(0, MAX_TX_PER_BLOCK)
    SubSeq(block.transactions, 1, Min(Len(block.transactions), MAX_TX_PER_BLOCK))

\* txsToShow.map((tx, index) => ...): index is 0-based
newStreamsOf(block, t) ==
    [i \in 1..Len(txsToShow(block)) |-> toStreamPacket(txsToShow(block)[i], i - 1, t, block)]

\* the merge without .slice(0, MAX_STREAMS)
ingestUpdater_noSlice(prev, newStreams) ==
    LET existingIds == {prev[i].id : i \in 1..Len(prev)}
        keep(s) == s.id \notin existingIds
        uniqueNewStreams == SelectSeq(newStreams, keep)
    IN  IF Len(uniqueNewStreams) > 0
        THEN deduplicateStreams(uniqueNewStreams \o prev)
        ELSE prev

\* the new packets put behind the previous collection
ingestUpdater_appends(prev, newStreams) ==
    LET existingIds == {prev[i].id : i \in 1..Len(prev)}
        keep(s) == s.id \notin existingIds
        uniqueNewStreams == SelectSeq(newStreams, keep)
        merged == deduplicateStreams(prev \o uniqueNewStreams)
    IN  IF Len(uniqueNewStreams) > 0
        THEN SubSeq(merged, 1, Min(Len(merged), MAX_STREAMS))
        ELSE prev

\* a merge of all the new packets, those with a known id included
ingestUpdater_replaces(prev, newStreams) ==
    LET merged == deduplicateStreams(newStreams \o prev)
    IN  IF Len(newStreams) > 0
        THEN SubSeq(merged, 1, Min(Len(merged), MAX_STREAMS))
        ELSE prev

\* a truncation that keeps the tail of the merged list
ingestUpdater_keepsTail(prev, newStreams) ==
    LET existingIds == {prev[i].id : i \in 1..Len(prev)}
        keep(s) == s.id \notin existingIds
        uniqueNewStreams == SelectSeq(newStreams, keep)
        merged == deduplicateStreams(uniqueNewStreams \o prev)
    IN  IF Len(uniqueNewStreams) > 0
        THEN SubSeq(merged, Len(merged) - Min(Len(merged), MAX_STREAMS) + 1, Len(merged))
        ELSE prev

\* a write of the new packets over the collection instead of a merge into it
ingestUpdater_overwrites(prev, newStreams) ==
    LET existingIds == {prev[i].id : i \in 1..Len(prev)}
        keep(s) == s.id \notin existingIds
        uniqueNewStreams == SelectSeq(newStreams, keep)
        merged == deduplicateStreams(uniqueNewStreams)
    IN  IF Len(uniqueNewStreams) > 0
        THEN SubSeq(merged, 1, Min(Len(merged), MAX_STREAMS))
        ELSE prev

\* the callback given to setStreams by fetchAndProcessBlock
ingestUpdater(prev, newStreams) ==
    LET existingIds == {prev[i].id : i \in 1..Len(prev)}
        keep(s) == s.id \notin existingIds
        uniqueNewStreams == SelectSeq(newStreams, keep)
        merged == deduplicateStreams(uniqueNewStreams \o prev)
    IN  IF Len(uniqueNewStreams) > 0
        THEN SubSeq(merged, 1, Min(Len(merged), MAX_STREAMS))
        ELSE prev

(***************************************************************************)
(* The block source.  getBlock answers with the block of the number asked  *)
(* for; its transactions are one of the lists of BlockTransactions.        *)
(***************************************************************************)
txB == Tx(Some(<<"b">>), Some(Wei(20, 0)), Some("0xf1"), Some("0xt1"))
txBupper == Tx(Some(<<"B">>), Some(Wei(10, 0)), Some("0xf2"), Absent)
txNoHash == Tx(Absent, Absent, Absent, Absent)

BigBlock == [i \in 1..(MAX_TX_PER_BLOCK + 1) |-> txNoHash]

\* an empty block, a block carrying one hash twice (in two spellings), and a
\* block of more than MAX_TX_PER_BLOCK transactions without hash
BlockTransactions == { <<>>, <<txB, txBupper>>, BigBlock }

blockHash(n) == <<"0xblock", n>>

Block(n, txs) == [hash |-> blockHash(n), number |-> n, transactions |-> txs]

ErrorMessages == {"HTTP request failed"}

(***************************************************************************)
(* State of the hook after its first render and the run of its effect:     *)
(* the useState/useRef initial values, connectionInfo set to connecting,   *)
(* the initial fetchAndProcessBlock() suspended at getBlockNumber, and     *)
(* the three intervals armed.  The runs of fetchAndProcessBlock are        *)
(* anonymous, so the suspended ones are counted per await and per block    *)
(* number asked for.  ConnectionInfo.lastBlockTime, networkName and rpcUrl *)
(* are read by no handler and are left out.                                *)
(***************************************************************************)
InitialStats ==
    [ latestStream |-> EmptyString,
      streamsPerSecond |-> 0,        \* in tenths
      avgFinalizationTime |-> 3,     \* in tenths
      updateTime |-> Absent,         \* "--:--:--"
      latestBlockNumber |-> 0 ]

InitialConnectionInfo ==
    [ status |-> "connecting", method |-> "http", error |-> Absent ]

NoArg == <<>>

\* the intervals armed by the effect of the polling engine
PollingIntervals == {"blockFetchInterval", "progressionInterval", "statsInterval"}

\* the closure variables of the websocket engine before its effect has run
WsIdle ==
    /\ unwatch = "null"
    /\ lastProcessedBlock = 0
    /\ onBlockRuns = {}
    /\ initialPoll = FALSE
    /\ lastPushedBlock = 0

\* an event of the runtime: a timer firing or a promise settling with a value
Event(name, n, value) == [name |-> name, number |-> n, value |-> value]

Init ==
    /\ streams = <<>>
    /\ stats = InitialStats
    /\ connectionInfo = InitialConnectionInfo
    /\ txCounterRef = 0
    /\ lastUpdateTimeRef = StartTime
    /\ lastBlockNumberRef = 0
    /\ now = StartTime
    /\ chainHead = 1
    /\ awaitingHead = 1
    /\ awaitingBlock = [n \in 1..MaxHead |-> 0]
    /\ event = Event("mount", 0, <<>>)
    /\ intervals = PollingIntervals
    /\ mounted = TRUE
    /\ WsIdle
    /\ arg = NoArg
    /\ ret = NoArg

harnessVars == <<arg, ret>>

RECURSIVE SumTo(_, _)
SumTo(f, n) == IF n = 0 THEN 0 ELSE f[n] + SumTo(f, n - 1)

TotalSuspended == awaitingHead + SumTo(awaitingBlock, MaxHead)

\* new Date().toLocaleTimeString(): the wall clock to the second
toLocaleTimeString(t) == Some(t \div 1000)

\* Math.round(sps * 10) / 10, in tenths, for sps = counter / (elapsedMs / 1000)
streamsPerSecondTenths(counter, elapsedMs) ==
    IF elapsedMs > 0
    THEN (2 * counter * 10000 + elapsedMs) \div (2 * elapsedMs)
    ELSE 0

(***************************************************************************)
(* The environment: the wall clock and the chain.                          *)
(***************************************************************************)
ClockAdvance ==
    /\ now + ClockStep <= MaxNow
    /\ now' = now + ClockStep
    /\ event' = Event("clock", 0, <<>>)
    /\ UNCHANGED <<streams, stats, connectionInfo, txCounterRef, lastUpdateTimeRef,
                   lastBlockNumberRef, chainHead, awaitingHead, awaitingBlock,
                   harnessVars, lifeVars, wsVars>>

NewBlock ==
    /\ chainHead < MaxHead
    /\ chainHead' = chainHead + 1
    /\ event' = Event("newBlock", 0, <<>>)
    /\ UNCHANGED <<streams, stats, connectionInfo, txCounterRef, lastUpdateTimeRef,
                   lastBlockNumberRef, now, awaitingHead, awaitingBlock, harnessVars, lifeVars, wsVars>>

\* the wall clock moving by one period of blockFetchInterval, for the
\* runs in which the 10 s window of the throughput counter elapses
ClockAdvanceLong ==
    /\ now + BLOCK_FETCH_INTERVAL <= MaxWindowNow
    /\ now' = now + BLOCK_FETCH_INTERVAL
    /\ event' = Event("clock", 0, <<>>)
    /\ UNCHANGED <<streams, stats, connectionInfo, txCounterRef, lastUpdateTimeRef,
                   lastBlockNumberRef, chainHead, awaitingHead, awaitingBlock,
                   harnessVars, lifeVars, wsVars>>

(***************************************************************************)
(* fetchAndProcessBlock, one action per stretch between two awaits.        *)
(***************************************************************************)
\* blockFetchInterval fires: fetchAndProcessBlock runs up to its first await
BlockFetchTimer ==
    /\ "blockFetchInterval" \in intervals
    /\ TotalSuspended < MaxInflight
    /\ awaitingHead' = awaitingHead + 1
    /\ event' = Event("blockFetchInterval", 0, <<>>)
    /\ UNCHANGED <<streams, stats, connectionInfo, txCounterRef, lastUpdateTimeRef,
                   lastBlockNumberRef, now, chainHead, awaitingBlock, harnessVars, lifeVars, wsVars>>

\* the first run without its setConnectionInfo
FirstRun_staysConnecting ==
    /\ awaitingHead > 0
    /\ lastBlockNumberRef = 0
    /\ lastBlockNumberRef' = chainHead
    /\ awaitingHead' = awaitingHead - 1
    /\ event' = Event("getBlockNumber resolved", chainHead, <<>>)
    /\ UNCHANGED <<streams, stats, connectionInfo, txCounterRef, lastUpdateTimeRef, now,
                   chainHead, awaitingBlock, arg, ret, lifeVars, wsVars>>

\* getBlockNumber resolves while no cursor is set: "Initialize on first run"
FirstRun ==
    /\ awaitingHead > 0
    /\ lastBlockNumberRef = 0
    /\ lastBlockNumberRef' = chainHead
    /\ connectionInfo' = [connectionInfo EXCEPT !.status = "connected"]
    /\ awaitingHead' = awaitingHead - 1
    /\ event' = Event("getBlockNumber resolved", chainHead, <<>>)
    /\ UNCHANGED <<streams, stats, txCounterRef, lastUpdateTimeRef, now, chainHead,
                   awaitingBlock, harnessVars, lifeVars, wsVars>>

\* getBlockNumber resolves above the cursor: getBlock is called and awaited
NewBlockDetected ==
    /\ awaitingHead > 0
    /\ lastBlockNumberRef # 0
    /\ chainHead > lastBlockNumberRef
    /\ awaitingHead' = awaitingHead - 1
    /\ awaitingBlock' = [awaitingBlock EXCEPT ![chainHead] = @ + 1]
    /\ event' = Event("getBlockNumber resolved", chainHead, <<>>)
    /\ UNCHANGED <<streams, stats, connectionInfo, txCounterRef, lastUpdateTimeRef,
                   lastBlockNumberRef, now, chainHead, harnessVars, lifeVars, wsVars>>

\* a return that first publishes the head it read
HeadUnchanged_publishes ==
    /\ awaitingHead > 0
    /\ lastBlockNumberRef # 0
    /\ ~(chainHead > lastBlockNumberRef)
    /\ stats' = [stats EXCEPT !.latestBlockNumber = chainHead]
    /\ awaitingHead' = awaitingHead - 1
    /\ event' = Event("getBlockNumber resolved", chainHead, <<>>)
    /\ UNCHANGED <<streams, connectionInfo, txCounterRef, lastUpdateTimeRef,
                   lastBlockNumberRef, now, chainHead, awaitingBlock, harnessVars,
                   lifeVars, wsVars>>

\* getBlockNumber resolves at or below the cursor: the function returns
HeadUnchanged ==
    /\ awaitingHead > 0
    /\ lastBlockNumberRef # 0
    /\ ~(chainHead > lastBlockNumberRef)
    /\ awaitingHead' = awaitingHead - 1
    /\ event' = Event("getBlockNumber resolved", chainHead, <<>>)
    /\ UNCHANGED <<streams, stats, connectionInfo, txCounterRef, lastUpdateTimeRef,
                   lastBlockNumberRef, now, chainHead, awaitingBlock, harnessVars, lifeVars, wsVars>>

\* getBlock resolves with block `latestBlockNumber`: the rest of the try block
ProcessBlock(latestBlockNumber, txs) ==
    /\ latestBlockNumber \in 1..MaxHead
    /\ awaitingBlock[latestBlockNumber] > 0
    /\ LET block == Block(latestBlockNumber, txs)
           newStreams == newStreamsOf(block, now)
           timeElapsedMs == now - lastUpdateTimeRef
           counter == txCounterRef + Len(newStreams)
       IN  /\ IF Len(txsToShow(block)) > 0
              THEN /\ streams' = ingestUpdater(streams, newStreams)
                   /\ stats' = [stats EXCEPT
                          !.latestStream = block.hash,
                          !.streamsPerSecond =
                              streamsPerSecondTenths(counter, timeElapsedMs),
                          !.updateTime = toLocaleTimeString(now),
                          !.latestBlockNumber = latestBlockNumber]
                   /\ IF timeElapsedMs > WINDOW
                      THEN txCounterRef' = 0 /\ lastUpdateTimeRef' = now
                      ELSE txCounterRef' = counter /\ UNCHANGED lastUpdateTimeRef
              ELSE UNCHANGED <<streams, stats, txCounterRef, lastUpdateTimeRef>>
           /\ lastBlockNumberRef' = latestBlockNumber
           /\ connectionInfo' = [connectionInfo EXCEPT !.status = "connected",
                                                       !.error = Absent]
    /\ awaitingBlock' = [awaitingBlock EXCEPT ![latestBlockNumber] = @ - 1]
    /\ event' = Event("getBlock resolved", latestBlockNumber, txs)
    /\ UNCHANGED <<now, chainHead, awaitingHead, harnessVars, lifeVars, wsVars>>

\* getBlockNumber rejects: the catch block
HeadFetchFailed(message) ==
    /\ awaitingHead > 0
    /\ connectionInfo' = [connectionInfo EXCEPT !.status = "error",
                                                !.error = Some(message)]
    /\ awaitingHead' = awaitingHead - 1
    /\ event' = Event("getBlockNumber rejected", 0, <<message>>)
    /\ UNCHANGED <<streams, stats, txCounterRef, lastUpdateTimeRef,
                   lastBlockNumberRef, now, chainHead, awaitingBlock, harnessVars, lifeVars, wsVars>>

\* a catch block that also drops the collection
BlockFetchFailed_clears(n, message) ==
    /\ n \in 1..MaxHead
    /\ awaitingBlock[n] > 0
    /\ connectionInfo' = [connectionInfo EXCEPT !.status = "error",
                                                !.error = Some(message)]
    /\ streams' = <<>>
    /\ awaitingBlock' = [awaitingBlock EXCEPT ![n] = @ - 1]
    /\ event' = Event("getBlock rejected", n, <<message>>)
    /\ UNCHANGED <<stats, txCounterRef, lastUpdateTimeRef,
                   lastBlockNumberRef, now, chainHead, awaitingHead, harnessVars,
                   lifeVars, wsVars>>

\* getBlock rejects: the catch block
BlockFetchFailed(n, message) ==
    /\ n \in 1..MaxHead
    /\ awaitingBlock[n] > 0
    /\ connectionInfo' = [connectionInfo EXCEPT !.status = "error",
                                                !.error = Some(message)]
    /\ awaitingBlock' = [awaitingBlock EXCEPT ![n] = @ - 1]
    /\ event' = Event("getBlock rejected", n, <<message>>)
    /\ UNCHANGED <<streams, stats, txCounterRef, lastUpdateTimeRef,
                   lastBlockNumberRef, now, chainHead, awaitingHead, harnessVars, lifeVars, wsVars>>

(***************************************************************************)
(* The two other intervals.                                                *)
(***************************************************************************)
ProgressionTick ==
    /\ "progressionInterval" \in intervals
    /\ streams' = progressionUpdater(streams, now)
    /\ event' = Event("progressionInterval", 0, <<>>)
    /\ UNCHANGED <<stats, connectionInfo, txCounterRef, lastUpdateTimeRef,
                   lastBlockNumberRef, now, chainHead, awaitingHead, awaitingBlock,
                   harnessVars, lifeVars, wsVars>>

\* a stats tick that also publishes the chain head
StatsTick_publishes ==
    /\ "statsInterval" \in intervals
    /\ stats' = [stats EXCEPT !.updateTime = toLocaleTimeString(now),
                              !.latestBlockNumber = chainHead]
    /\ event' = Event("statsInterval", 0, <<>>)
    /\ UNCHANGED <<streams, connectionInfo, txCounterRef, lastUpdateTimeRef,
                   lastBlockNumberRef, now, chainHead, awaitingHead, awaitingBlock,
                   harnessVars, lifeVars, wsVars>>

StatsTick ==
    /\ "statsInterval" \in intervals
    /\ stats' = [stats EXCEPT !.updateTime = toLocaleTimeString(now)]
    /\ event' = Event("statsInterval", 0, <<>>)
    /\ UNCHANGED <<streams, connectionInfo, txCounterRef, lastUpdateTimeRef,
                   lastBlockNumberRef, now, chainHead, awaitingHead, awaitingBlock,
                   harnessVars, lifeVars, wsVars>>

Next ==
    \/ ClockAdvance
    \/ NewBlock
    \/ BlockFetchTimer
    \/ FirstRun
    \/ NewBlockDetected
    \/ HeadUnchanged
    \/ \E n \in 1..MaxHead : \E txs \in BlockTransactions : ProcessBlock(n, txs)
    \/ \E m \in ErrorMessages : HeadFetchFailed(m)
    \/ \E n \in 1..MaxHead : \E m \in ErrorMessages : BlockFetchFailed(n, m)
    \/ ProgressionTick
    \/ StatsTick

Spec == Init /\ [][Next]_vars

(***************************************************************************)
(* The polling engine with a punctual progression timer.  The clock moves  *)
(* by TimeUnit, and the progressionInterval callback runs at the instant   *)
(* it falls due, every PROGRESSION_INTERVAL after the mount, reading that  *)
(* instant as Date.now().  Blocks resolve up to LastIngestTime, which      *)
(* leaves four periods of the timer after the last ingestion.  The block   *)
(* source answers every call; its rejections and the stats timer, which    *)
(* write neither the collection nor the clock, are in Spec.                *)
(***************************************************************************)
progressionDue(t) ==
    /\ "progressionInterval" \in intervals
    /\ t > StartTime
    /\ (t - StartTime) % PROGRESSION_INTERVAL = 0

TimeStep ==
    /\ now + TimeUnit <= MaxTimedNow
    /\ now' = now + TimeUnit
    /\ IF progressionDue(now')
       THEN /\ streams' = progressionUpdater(streams, now')
            /\ event' = Event("progressionInterval", 0, <<>>)
       ELSE /\ UNCHANGED streams
            /\ event' = Event("clock", 0, <<>>)
    /\ UNCHANGED <<stats, connectionInfo, txCounterRef, lastUpdateTimeRef,
                   lastBlockNumberRef, chainHead, awaitingHead, awaitingBlock,
                   harnessVars, lifeVars, wsVars>>

NextTimed ==
    \/ TimeStep
    \/ NewBlock
    \/ BlockFetchTimer
    \/ FirstRun
    \/ NewBlockDetected
    \/ HeadUnchanged
    \/ \E n \in 1..MaxHead : \E txs \in BlockTransactions :
          now <= LastIngestTime /\ ProcessBlock(n, txs)

SpecTimed == Init /\ [][NextTimed]_vars /\ WF_vars(TimeStep)

\* the polling engine observed once per period of blockFetchInterval
NextWindow ==
    \/ ClockAdvanceLong
    \/ NewBlock
    \/ BlockFetchTimer
    \/ FirstRun
    \/ NewBlockDetected
    \/ HeadUnchanged
    \/ \E n \in 1..MaxHead : \E txs \in BlockTransactions : ProcessBlock(n, txs)
    \/ \E m \in ErrorMessages : HeadFetchFailed(m)
    \/ \E n \in 1..MaxHead : \E m \in ErrorMessages : BlockFetchFailed(n, m)
    \/ ProgressionTick
    \/ StatsTick

SpecWindow == Init /\ [][NextWindow]_vars

(***************************************************************************)
(* The cleanup function returned by the effect: the three intervals are    *)
(* cleared.  Runs of fetchAndProcessBlock that are suspended at an await   *)
(* are not cancelled and carry no flag telling them the effect is gone.    *)
(***************************************************************************)
Cleanup ==
    /\ mounted
    /\ unwatch = "null"
    /\ mounted' = FALSE
    /\ intervals' = intervals \ PollingIntervals
    /\ event' = Event("cleanup", 0, <<>>)
    /\ UNCHANGED <<streams, stats, connectionInfo, txCounterRef, lastUpdateTimeRef,
                   lastBlockNumberRef, now, chainHead, awaitingHead, awaitingBlock,
                   harnessVars, wsVars>>

NextTeardown == Next \/ Cleanup

SpecTeardown == Init /\ [][NextTeardown]_vars

(***************************************************************************)
(* The websocket engine (hooks/useSomniaStreams.ts): watchBlocks pushes    *)
(* blocks to onBlock; when watchBlocks throws or reports an error,         *)
(* setupPolling takes over with pollBlocks every 500 ms.  The collection,  *)
(* the stats, connectionInfo, the two refs and the progression and stats   *)
(* intervals are those of the polling engine; awaitingHead and             *)
(* awaitingBlock count the suspended runs of pollBlocks.  An onBlock run   *)
(* reads Date.now() before its await and is kept with that reading.        *)
(***************************************************************************)
WsIntervals == {"pollInterval", "progressionInterval", "statsInterval"}

WsErrorMessages == {"socket closed"}

\* a timer armed by setInterval(pollBlocks, 500) whose handle pollInterval
\* no longer holds
LeakedPollInterval == "pollInterval (handle overwritten)"

OnBlockRun(n, t) == [number |-> n, now |-> t]

WsSuspended == TotalSuspended + Cardinality(onBlockRuns)

Max(a, b) == IF a > b THEN a ELSE b

\* the part of Init that both engines share
WsMounted ==
    /\ streams = <<>>
    /\ stats = InitialStats
    /\ txCounterRef = 0
    /\ lastUpdateTimeRef = StartTime
    /\ lastBlockNumberRef = 0
    /\ now = StartTime
    /\ chainHead = 1
    /\ awaitingBlock = [n \in 1..MaxHead |-> 0]
    /\ event = Event("mount", 0, <<>>)
    /\ intervals = {"progressionInterval", "statsInterval"}
    /\ mounted = TRUE
    /\ lastProcessedBlock = 0
    /\ onBlockRuns = {}
    /\ lastPushedBlock = 0
    /\ arg = NoArg
    /\ ret = NoArg

\* the effect has run: watchBlocks returned a subscription, or it threw and
\* setupPolling started, or the network has no websocket url and
\* setupPolling was called directly
InitWs ==
    /\ WsMounted
    /\ \/ /\ unwatch = "watching"
          /\ connectionInfo = [status |-> "connected", method |-> "websocket",
                               error |-> Absent]
          /\ initialPoll = FALSE
          /\ awaitingHead = 0
       \/ /\ unwatch = "null"
          /\ \E e \in {Absent} \cup {Some(m) : m \in WsErrorMessages} :
                connectionInfo = [status |-> "polling", method |-> "http", error |-> e]
          /\ initialPoll = TRUE
          /\ awaitingHead = 1

\* watchBlocks delivers the next block of the chain: onBlock up to its await
OnBlock ==
    /\ unwatch = "watching"
    /\ chainHead < MaxHead
    /\ WsSuspended < MaxInflight
    /\ chainHead' = chainHead + 1
    /\ connectionInfo' = [connectionInfo EXCEPT !.status = "connected",
                                                !.error = Absent]
    /\ onBlockRuns' = onBlockRuns \cup {OnBlockRun(chainHead + 1, now)}
    /\ event' = Event("onBlock", chainHead + 1, <<>>)
    /\ UNCHANGED <<streams, stats, txCounterRef, lastUpdateTimeRef, lastBlockNumberRef,
                   now, awaitingHead, awaitingBlock, intervals, mounted, unwatch,
                   lastProcessedBlock, initialPoll, lastPushedBlock, harnessVars>>

\* getBlock of an onBlock run resolves: the rest of its try block
OnBlockResolved(run, txs) ==
    /\ run \in onBlockRuns
    /\ LET block == Block(run.number, txs)
           newStreams == newStreamsOf(block, run.now)
           timeElapsedMs == run.now - lastUpdateTimeRef
           counter == txCounterRef + Len(newStreams)
       IN  IF Len(txsToShow(block)) = 0
           THEN UNCHANGED <<streams, stats, txCounterRef, lastUpdateTimeRef,
                            lastPushedBlock>>
           ELSE /\ streams' = ingestUpdater(streams, newStreams)
                /\ stats' = [stats EXCEPT
                       !.latestStream = block.hash,
                       !.streamsPerSecond =
                           streamsPerSecondTenths(counter, timeElapsedMs),
                       !.updateTime = toLocaleTimeString(now),
                       !.latestBlockNumber = run.number]
                /\ IF timeElapsedMs > WINDOW
                   THEN txCounterRef' = 0 /\ lastUpdateTimeRef' = run.now
                   ELSE txCounterRef' = counter /\ UNCHANGED lastUpdateTimeRef
                /\ lastPushedBlock' = Max(lastPushedBlock, run.number)
    /\ onBlockRuns' = onBlockRuns \ {run}
    /\ event' = Event("getBlock resolved", run.number, txs)
    /\ UNCHANGED <<connectionInfo, lastBlockNumberRef, now, chainHead, awaitingHead,
                   awaitingBlock, intervals, mounted, unwatch, lastProcessedBlock,
                   initialPoll, harnessVars>>

\* getBlock of an onBlock run rejects: the catch block only logs
OnBlockRejected(run, message) ==
    /\ run \in onBlockRuns
    /\ onBlockRuns' = onBlockRuns \ {run}
    /\ event' = Event("getBlock rejected", run.number, <<message>>)
    /\ UNCHANGED <<streams, stats, connectionInfo, txCounterRef, lastUpdateTimeRef,
                   lastBlockNumberRef, now, chainHead, awaitingHead, awaitingBlock,
                   intervals, mounted, unwatch, lastProcessedBlock, initialPoll,
                   lastPushedBlock, harnessVars>>

\* the subscription reports an error: onError, then setupPolling up to the
\* await of its initial pollBlocks, which is suspended at getBlockNumber
OnError(message) ==
    /\ unwatch = "watching"
    /\ connectionInfo' = [status |-> "polling", method |-> "http",
                          error |-> Some(message)]
    /\ unwatch' = "unwatched"
    /\ initialPoll' = TRUE
    /\ awaitingHead' = awaitingHead + 1
    /\ event' = Event("onError", 0, <<message>>)
    /\ UNCHANGED <<streams, stats, txCounterRef, lastUpdateTimeRef, lastBlockNumberRef,
                   now, chainHead, awaitingBlock, intervals, mounted, lastProcessedBlock,
                   onBlockRuns, lastPushedBlock, harnessVars>>

\* pollInterval fires: pollBlocks up to its first await
PollTimer ==
    /\ "pollInterval" \in intervals
    /\ WsSuspended < MaxInflight
    /\ awaitingHead' = awaitingHead + 1
    /\ event' = Event("pollInterval", 0, <<>>)
    /\ UNCHANGED <<streams, stats, connectionInfo, txCounterRef, lastUpdateTimeRef,
                   lastBlockNumberRef, now, chainHead, awaitingBlock, harnessVars,
                   lifeVars, wsVars>>

\* a run of pollBlocks has returned: if it was the one setupPolling awaits,
\* setupPolling goes on to `pollInterval = setInterval(pollBlocks, 500)`
\* When pollInterval already holds the handle of an armed timer the
\* assignment overwrites it: that timer stays armed with no handle left.
PollReturned ==
    IF initialPoll
    THEN /\ initialPoll' = FALSE
         /\ intervals' = intervals \cup {"pollInterval"}
                \cup (IF "pollInterval" \in intervals THEN {LeakedPollInterval} ELSE {})
    ELSE UNCHANGED <<initialPoll, intervals>>

\* getBlockNumber resolves in pollBlocks: "Update connection status on successful poll"
PollSucceeded ==
    connectionInfo' = [connectionInfo EXCEPT !.status = "polling", !.error = Absent]

\* the poller's first run with the cursor set at the first block
PollFirstRun_fromGenesis ==
    /\ awaitingHead > 0
    /\ lastProcessedBlock = 0
    /\ PollSucceeded
    /\ lastProcessedBlock' = 1
    /\ awaitingHead' = awaitingHead - 1
    /\ PollReturned
    /\ event' = Event("getBlockNumber resolved", chainHead, <<>>)
    /\ UNCHANGED <<streams, stats, txCounterRef, lastUpdateTimeRef, lastBlockNumberRef,
                   now, chainHead, awaitingBlock, mounted, unwatch, onBlockRuns,
                   lastPushedBlock, harnessVars>>

PollFirstRun ==
    /\ awaitingHead > 0
    /\ lastProcessedBlock = 0
    /\ PollSucceeded
    /\ lastProcessedBlock' = chainHead
    /\ awaitingHead' = awaitingHead - 1
    /\ PollReturned
    /\ event' = Event("getBlockNumber resolved", chainHead, <<>>)
    /\ UNCHANGED <<streams, stats, txCounterRef, lastUpdateTimeRef, lastBlockNumberRef,
                   now, chainHead, awaitingBlock, mounted, unwatch, onBlockRuns,
                   lastPushedBlock, harnessVars>>

PollNewBlockDetected ==
    /\ awaitingHead > 0
    /\ lastProcessedBlock # 0
    /\ chainHead > lastProcessedBlock
    /\ PollSucceeded
    /\ awaitingHead' = awaitingHead - 1
    /\ awaitingBlock' = [awaitingBlock EXCEPT ![chainHead] = @ + 1]
    /\ event' = Event("getBlockNumber resolved", chainHead, <<>>)
    /\ UNCHANGED <<streams, stats, txCounterRef, lastUpdateTimeRef, lastBlockNumberRef,
                   now, chainHead, harnessVars, lifeVars, wsVars>>

PollHeadUnchanged ==
    /\ awaitingHead > 0
    /\ lastProcessedBlock # 0
    /\ ~(chainHead > lastProcessedBlock)
    /\ PollSucceeded
    /\ awaitingHead' = awaitingHead - 1
    /\ PollReturned
    /\ event' = Event("getBlockNumber resolved", chainHead, <<>>)
    /\ UNCHANGED <<streams, stats, txCounterRef, lastUpdateTimeRef, lastBlockNumberRef,
                   now, chainHead, awaitingBlock, mounted, unwatch, lastProcessedBlock,
                   onBlockRuns, lastPushedBlock, harnessVars>>

\* getBlock resolves in pollBlocks: "Process block (same logic as WebSocket)"
PollProcessBlock(latestBlockNumber, txs) ==
    /\ latestBlockNumber \in 1..MaxHead
    /\ awaitingBlock[latestBlockNumber] > 0
    /\ LET block == Block(latestBlockNumber, txs)
           newStreams == newStreamsOf(block, now)
           timeElapsedMs == now - lastUpdateTimeRef
           counter == txCounterRef + Len(newStreams)
       IN  IF Len(txsToShow(block)) > 0
           THEN /\ streams' = ingestUpdater(streams, newStreams)
                /\ stats' = [stats EXCEPT
                       !.latestStream = block.hash,
                       !.streamsPerSecond =
                           streamsPerSecondTenths(counter, timeElapsedMs),
                       !.updateTime = toLocaleTimeString(now),
                       !.latestBlockNumber = latestBlockNumber]
                /\ IF timeElapsedMs > WINDOW
                   THEN txCounterRef' = 0 /\ lastUpdateTimeRef' = now
                   ELSE txCounterRef' = counter /\ UNCHANGED lastUpdateTimeRef
           ELSE UNCHANGED <<streams, stats, txCounterRef, lastUpdateTimeRef>>
    /\ lastProcessedBlock' = latestBlockNumber
    /\ awaitingBlock' = [awaitingBlock EXCEPT ![latestBlockNumber] = @ - 1]
    /\ PollReturned
    /\ event' = Event("getBlock resolved", latestBlockNumber, txs)
    /\ UNCHANGED <<connectionInfo, lastBlockNumberRef, now, chainHead, awaitingHead,
                   mounted, unwatch, onBlockRuns, lastPushedBlock, harnessVars>>

\* getBlockNumber rejects in pollBlocks: the catch block
PollHeadFetchFailed(message) ==
    /\ awaitingHead > 0
    /\ connectionInfo' = [connectionInfo EXCEPT !.status = "error",
                                                !.error = Some(message)]
    /\ awaitingHead' = awaitingHead - 1
    /\ PollReturned
    /\ event' = Event("getBlockNumber rejected", 0, <<message>>)
    /\ UNCHANGED <<streams, stats, txCounterRef, lastUpdateTimeRef, lastBlockNumberRef,
                   now, chainHead, awaitingBlock, mounted, unwatch, lastProcessedBlock,
                   onBlockRuns, lastPushedBlock, harnessVars>>

\* getBlock rejects in pollBlocks: the catch block
PollBlockFetchFailed(n, message) ==
    /\ n \in 1..MaxHead
    /\ awaitingBlock[n] > 0
    /\ connectionInfo' = [connectionInfo EXCEPT !.status = "error",
                                                !.error = Some(message)]
    /\ awaitingBlock' = [awaitingBlock EXCEPT ![n] = @ - 1]
    /\ PollReturned
    /\ event' = Event("getBlock rejected", n, <<message>>)
    /\ UNCHANGED <<streams, stats, txCounterRef, lastUpdateTimeRef, lastBlockNumberRef,
                   now, chainHead, awaitingHead, mounted, unwatch, lastProcessedBlock,
                   onBlockRuns, lastPushedBlock, harnessVars>>

\* the cleanup function of the effect: unwatch() if it is set,
\* clearInterval(pollInterval) if it is set, and the two other intervals
WsCleanup ==
    /\ mounted
    /\ mounted' = FALSE
    /\ unwatch' = IF unwatch = "watching" THEN "unwatched" ELSE unwatch
    /\ intervals' = intervals \ WsIntervals
    /\ event' = Event("cleanup", 0, <<>>)
    /\ UNCHANGED <<streams, stats, connectionInfo, txCounterRef, lastUpdateTimeRef,
                   lastBlockNumberRef, now, chainHead, awaitingHead, awaitingBlock,
                   lastProcessedBlock, onBlockRuns, initialPoll, lastPushedBlock,
                   harnessVars>>

NextWs ==
    \/ ClockAdvance
    \/ NewBlock
    \/ OnBlock
    \/ \E run \in onBlockRuns : \E txs \in BlockTransactions : OnBlockResolved(run, txs)
    \/ \E run \in onBlockRuns : \E m \in ErrorMessages : OnBlockRejected(run, m)
    \/ \E m \in WsErrorMessages : OnError(m)
    \/ PollTimer
    \/ PollFirstRun
    \/ PollNewBlockDetected
    \/ PollHeadUnchanged
    \/ \E n \in 1..MaxHead : \E txs \in BlockTransactions : PollProcessBlock(n, txs)
    \/ \E m \in ErrorMessages : PollHeadFetchFailed(m)
    \/ \E n \in 1..MaxHead : \E m \in ErrorMessages : PollBlockFetchFailed(n, m)
    \/ ProgressionTick
    \/ StatsTick
    \/ WsCleanup

SpecWs == InitWs /\ [][NextWs]_vars

(***************************************************************************)
(* The websocket engine with a subscription that reports errors more than  *)
(* once.  onError has no guard: each report calls unwatch() and            *)
(* setupPolling() again.  One setupPolling is suspended at a time, and     *)
(* the block source answers every call; its rejections and the stats       *)
(* timer, which arm and clear no timer, are in SpecWs.                     *)
(***************************************************************************)
\* a further report to onError after the first: setupPolling once more, up
\* to the await of its initial pollBlocks
OnErrorAgain(message) ==
    /\ unwatch = "unwatched"
    /\ mounted
    /\ ~initialPoll
    /\ WsSuspended < MaxInflight
    /\ connectionInfo' = [status |-> "polling", method |-> "http",
                          error |-> Some(message)]
    /\ initialPoll' = TRUE
    /\ awaitingHead' = awaitingHead + 1
    /\ event' = Event("onError", 0, <<message>>)
    /\ UNCHANGED <<streams, stats, txCounterRef, lastUpdateTimeRef, lastBlockNumberRef,
                   now, chainHead, awaitingBlock, intervals, mounted, unwatch,
                   lastProcessedBlock, onBlockRuns, lastPushedBlock, harnessVars>>

\* the timer without handle fires: pollBlocks up to its first await
LeakedPollTimer ==
    /\ LeakedPollInterval \in intervals
    /\ WsSuspended < MaxInflight
    /\ awaitingHead' = awaitingHead + 1
    /\ event' = Event("pollInterval", 0, <<>>)
    /\ UNCHANGED <<streams, stats, connectionInfo, txCounterRef, lastUpdateTimeRef,
                   lastBlockNumberRef, now, chainHead, awaitingBlock, harnessVars,
                   lifeVars, wsVars>>

NextWsErrors ==
    \/ ClockAdvance
    \/ NewBlock
    \/ OnBlock
    \/ \E run \in onBlockRuns : \E txs \in BlockTransactions : OnBlockResolved(run, txs)
    \/ \E m \in WsErrorMessages : OnError(m)
    \/ \E m \in WsErrorMessages : OnErrorAgain(m)
    \/ PollTimer
    \/ LeakedPollTimer
    \/ PollFirstRun
    \/ PollNewBlockDetected
    \/ PollHeadUnchanged
    \/ \E n \in 1..MaxHead : \E txs \in BlockTransactions : PollProcessBlock(n, txs)
    \/ ProgressionTick
    \/ WsCleanup

SpecWsErrors == InitWs /\ [][NextWsErrors]_vars

(***************************************************************************)
(* deduplicateStreams and the progression updater as functions of their    *)
(* arguments: Init draws the arguments, the actions apply the function     *)
(* (a second time to its own result), the engine stays idle.               *)
(***************************************************************************)
MaxDedupLen == 3         \* longest argument of deduplicateStreams
MaxProgressionLen == 2   \* longest argument of the progression updater drawn freely
MaxOverflow == 2         \* packets above MAX_STREAMS in an oversized argument

Packet(id, status, lastStageTime) ==
    [ id |-> id,
      status |-> status,
      timestamp |-> IF status = "streamed" THEN lastStageTime ELSE 0,
      eventType |-> "Transaction",
      source |-> "0x0",
      data |-> [to |-> "Contract Creation", type |-> "Contract Deploy"],
      confirmations |-> statusOrder(status),
      hash |-> id,
      lastStageTime |-> lastStageTime,
      blockNumber |-> 1 ]

SeqsUpTo(S, n) == UNION {[1..k -> S] : k \in 0..n}

HashIds == {<<"a">>, <<"b">>}

DedupPool == {Packet(id, st, l) : id \in HashIds, st \in StreamStatus, l \in {100, 200}}

DedupArgs == {[s |-> s, t |-> 0] : s \in SeqsUpTo(DedupPool, MaxDedupLen)}

ProgressionPool ==
    {Packet(id, st, l) : id \in HashIds, st \in StreamStatus, l \in {0, 100, 200}}

\* more than MAX_STREAMS packets with pairwise distinct ids
OversizedCollections ==
    UNION { {[i \in 1..k |-> Packet(<<"tx_", 100, i>>, st[i], 100)] : st \in [1..k -> StreamStatus]}
            : k \in (MAX_STREAMS + 1)..(MAX_STREAMS + MaxOverflow) }

ProgressionArgs ==
    {[s |-> s, t |-> t] : s \in SeqsUpTo(ProgressionPool, MaxProgressionLen), t \in {300, 400}}
    \cup {[s |-> s, t |-> 400] : s \in OversizedCollections}

EngineIdle ==
    /\ streams = <<>>
    /\ stats = InitialStats
    /\ connectionInfo = InitialConnectionInfo
    /\ txCounterRef = 0
    /\ lastUpdateTimeRef = StartTime
    /\ lastBlockNumberRef = 0
    /\ now = StartTime
    /\ chainHead = 1
    /\ awaitingHead = 0
    /\ awaitingBlock = [n \in 1..MaxHead |-> 0]
    /\ event = Event("none", 0, <<>>)
    /\ intervals = {}
    /\ mounted = TRUE
    /\ WsIdle

engineVars == <<streams, stats, connectionInfo, txCounterRef, lastUpdateTimeRef,
                lastBlockNumberRef, now, chainHead, awaitingHead, awaitingBlock, event,
                lifeVars, wsVars>>

Result(fn, n, first, out) == [fn |-> fn, n |-> n, first |-> first, out |-> out]

InitDedup == EngineIdle /\ arg \in DedupArgs /\ ret = NoArg

ApplyDedup ==
    /\ arg # NoArg
    /\ ret = NoArg
    /\ ret' = Result("deduplicateStreams", 1, deduplicateStreams(arg.s),
                     deduplicateStreams(arg.s))
    /\ UNCHANGED <<engineVars, arg>>

ReapplyDedup ==
    /\ ret # NoArg
    /\ ret.fn = "deduplicateStreams"
    /\ ret.n = 1
    /\ ret' = Result("deduplicateStreams", 2, ret.first, deduplicateStreams(ret.out))
    /\ UNCHANGED <<engineVars, arg>>

NextDedup == ApplyDedup \/ ReapplyDedup

SpecDedup == InitDedup /\ [][NextDedup]_vars

InitProgression == EngineIdle /\ arg \in ProgressionArgs /\ ret = NoArg

\* the progression tick at time arg.t on the collection arg.s
ApplyProgression ==
    /\ arg # NoArg
    /\ ret = NoArg
    /\ ret' = Result("progression", 1, progressionUpdater(arg.s, arg.t),
                     progressionUpdater(arg.s, arg.t))
    /\ UNCHANGED <<engineVars, arg>>

\* the next progression tick, STAGE_DURATION later, on the result of the first
ReapplyProgression ==
    /\ ret # NoArg
    /\ ret.fn = "progression"
    /\ ret.n = 1
    /\ ret' = Result("progression", 2, ret.first,
                     progressionUpdater(ret.out, arg.t + STAGE_DURATION))
    /\ UNCHANGED <<engineVars, arg>>

NextProgression == ApplyProgression \/ ReapplyProgression

SpecProgression == InitProgression /\ [][NextProgression]_vars

(***************************************************************************)
(* An ingestion write and a progression tick applied one after the other,  *)
(* in both orders, to a collection drawn by Init.  Each is the callback    *)
(* given to setStreams, so the second is applied to the result of the      *)
(* first.  The ingestion is that of block 2 fetched at time arg.ti, the    *)
(* tick runs at time arg.t.                                                *)
(***************************************************************************)
InterleavePool ==
    {Packet(id, st, l) : id \in {<<"b">>, <<"c">>, <<"tx_", 100, 0>>},
                         st \in StreamStatus, l \in {100, 200}}

InterleaveArgs ==
    {[s |-> s, t |-> 400, txs |-> txs, ti |-> ti] :
        s \in {c \in SeqsUpTo(InterleavePool, MAX_STREAMS) :
                  \A i, j \in 1..Len(c) : c[i].id = c[j].id => i = j},
        txs \in BlockTransactions,
        ti \in {100, 400, 700}}

InitInterleave == EngineIdle /\ arg \in InterleaveArgs /\ ret = NoArg

ingested(prev) == ingestUpdater(prev, newStreamsOf(Block(2, arg.txs), arg.ti))

ApplyIngestion ==
    /\ arg # NoArg
    /\ ret = NoArg
    /\ arg.ti <= arg.t
    /\ ret' = Result("ingestion", 1, ingested(arg.s), ingested(arg.s))
    /\ UNCHANGED <<engineVars, arg>>

ProgressAfterIngestion ==
    /\ ret # NoArg
    /\ ret.fn = "ingestion"
    /\ ret' = Result("ingest-then-progress", 2, ret.out,
                     progressionUpdater(ret.out, arg.t))
    /\ UNCHANGED <<engineVars, arg>>

FirstProgression ==
    /\ arg.t <= arg.ti
    /\ ApplyProgression

IngestAfterProgression ==
    /\ ret # NoArg
    /\ ret.fn = "progression"
    /\ ret.n = 1
    /\ ret' = Result("progress-then-ingest", 2, ret.out, ingested(ret.out))
    /\ UNCHANGED <<engineVars, arg>>

NextInterleave ==
    \/ ApplyIngestion
    \/ ProgressAfterIngestion
    \/ FirstProgression
    \/ IngestAfterProgression

SpecInterleave == InitInterleave /\ [][NextInterleave]_vars

(***************************************************************************)
(* The conversion of one transaction to a packet, applied to transactions  *)
(* drawn by Init: with and without hash, sender and recipient, and with    *)
(* values around 0.01 native units to the wei.                             *)
(***************************************************************************)
MaxWeiRest == 3          \* wei above a multiple of 10^15 in a drawn tx.value

WeiUnits == {0, 1, 9, 10, 11, 20}

ConvertArgs ==
    {[tx |-> Tx(h, v, f, to), index |-> i, t |-> StartTime] :
        h \in {Absent, Some(<<"b">>), Some(<<"B">>)},
        v \in {Absent} \cup {Some(Wei(k, r)) : k \in WeiUnits, r \in 0..MaxWeiRest},
        f \in {Absent, Some("0xf1")},
        to \in {Absent, Some("0xt1")},
        i \in {0, 1}}

InitConvert == EngineIdle /\ arg \in ConvertArgs /\ ret = NoArg

ApplyConversion ==
    /\ arg # NoArg
    /\ ret = NoArg
    /\ ret' = Result("toStreamPacket", 1,
                     toStreamPacket(arg.tx, arg.index, arg.t, Block(2, <<arg.tx>>)),
                     toStreamPacket(arg.tx, arg.index, arg.t, Block(2, <<arg.tx>>)))
    /\ UNCHANGED <<engineVars, arg>>

NextConvert == ApplyConversion

SpecConvert == InitConvert /\ [][NextConvert]_vars

(***************************************************************************)
(* Properties.                                                             *)
(***************************************************************************)
idsOf(s) == {s[i].id : i \in 1..Len(s)}

UniqueIds(s) == \A i, j \in 1..Len(s) : s[i].id = s[j].id => i = j

occurrences(s, id) == {i \in 1..Len(s) : s[i].id = id}

SetMin(S) == CHOOSE x \in S : \A y \in S : x <= y

\* the first packet of s among those of `id` with the greatest status order
firstMostAdvanced(s, id) ==
    LET best == {i \in occurrences(s, id) :
                    \A j \in occurrences(s, id) :
                        statusOrder(s[j].status) <= statusOrder(s[i].status)}
    IN  s[SetMin(best)]

\* the status one step after s in streamed < indexed < consolidated < finalized
successor(s) == CHOOSE n \in StreamStatus : statusOrder(n) = statusOrder(s) + 1

DedupApplied == ret # NoArg /\ ret.fn = "deduplicateStreams"
ProgressionApplied == ret # NoArg /\ ret.fn = "progression"

\* C1: in every reachable state of the polling engine the packet collection
\* holds at most MAX_STREAMS packets, whatever the interleaving of ingestion
\* writes and progression ticks.
C1_CapacityInvariant == Len(streams) <= MAX_STREAMS

\* an ingestion has just written a full collection after more packets were
\* created than the collection holds
C1_Witness ==
    /\ event.name = "getBlock resolved"
    /\ Len(streams) = MAX_STREAMS
    /\ txCounterRef > MAX_STREAMS
    /\ streams[1].timestamp = now
    /\ streams[MAX_STREAMS].timestamp < now

\* the engine, together with the progression updater applied to collections
\* drawn freely
InitUnique == Init \/ InitProgression

NextUnique == (arg = NoArg /\ Next) \/ NextProgression

SpecUnique == InitUnique /\ [][NextUnique]_vars

\* C2: the collection never holds two packets of one id, also after a block
\* that carries one hash twice, and the progression updater returns a
\* collection with one packet per id for every input collection.
C2_UniqueIds ==
    /\ UniqueIds(streams)
    /\ ProgressionApplied => UniqueIds(ret.out)

\* the block with one hash twice has just been ingested into a collection
\* that already held packets
C2_Witness ==
    /\ event.name = "getBlock resolved"
    /\ event.value = <<txB, txBupper>>
    /\ Len(streams) > 1
    /\ streams[1].id = <<"b">>
    /\ streams[1].timestamp = now

\* C3: while a packet id stays in the collection its status never moves
\* back in streamed < indexed < consolidated < finalized, over progression
\* ticks and ingestion writes alike.
C3_MonotonicStatus ==
    [][\A i \in 1..Len(streams) : \A j \in 1..Len(streams') :
          streams[i].id = streams'[j].id
              => statusOrder(streams[i].status) <= statusOrder(streams'[j].status)]_vars

\* a block carrying an id whose packet is already past streamed has just
\* been ingested, and that packet is still past streamed
C3_Witness ==
    /\ event.name = "getBlock resolved"
    /\ event.value = <<txB, txBupper>>
    /\ \E i \in 1..Len(streams) :
          streams[i].id = <<"b">> /\ streams[i].status = "finalized"
    /\ \E i \in 1..Len(streams) : streams[i].status = "indexed"

\* C4: getNextStatus(finalized) = finalized, and a finalized packet that a
\* progression tick keeps is finalized with confirmations 3 after the tick
\* and after the tick that follows it.
C4_IdempotentTerminal ==
    /\ getNextStatus("finalized") = "finalized"
    /\ (ProgressionApplied /\ UniqueIds(arg.s)) =>
          \A i \in 1..Len(arg.s) : \A j \in 1..Len(ret.out) :
              (arg.s[i].status = "finalized" /\ ret.out[j].id = arg.s[i].id)
                  => ret.out[j].status = "finalized" /\ ret.out[j].confirmations = 3
    /\ (ProgressionApplied /\ ret.n = 2) =>
          \A i \in 1..Len(ret.first) : \A j \in 1..Len(ret.out) :
              (ret.first[i].status = "finalized" /\ ret.out[j].id = ret.first[i].id)
                  => ret.out[j] = ret.first[i]

\* two ticks have run over a collection with a finalized packet and one
\* that the first tick finalized
C4_Witness ==
    /\ ProgressionApplied
    /\ ret.n = 2
    /\ UniqueIds(arg.s)
    /\ Len(arg.s) = 2
    /\ arg.s[1].status = "finalized"
    /\ arg.s[2].status = "consolidated"
    /\ ret.first[2].status = "finalized"
    /\ Len(ret.out) = 2

\* C5: deduplicateStreams returns one packet per id of its input, and for
\* each id the first of the input's packets with the greatest status order.
C5_MergeCorrectness ==
    (DedupApplied /\ ret.n = 1) =>
        /\ UniqueIds(ret.out)
        /\ idsOf(ret.out) = idsOf(arg.s)
        /\ \A k \in 1..Len(ret.out) : ret.out[k] = firstMostAdvanced(arg.s, ret.out[k].id)

\* streamed, then consolidated twice (two different packets) for one id:
\* the first consolidated one is kept
C5_Witness ==
    /\ DedupApplied
    /\ ret.n = 1
    /\ Len(arg.s) = 3
    /\ arg.s[1].id = arg.s[2].id /\ arg.s[2].id = arg.s[3].id
    /\ arg.s[1].status = "streamed"
    /\ arg.s[2].status = "consolidated"
    /\ arg.s[3].status = "consolidated"
    /\ arg.s[2] # arg.s[3]
    /\ ret.out = <<arg.s[2]>>

\* C6: deduplicating the result of deduplicateStreams returns it unchanged,
\* and a collection already unique by id is returned as it is, in its order.
C6_DedupIdempotence ==
    /\ (DedupApplied /\ ret.n = 2) => ret.out = ret.first
    /\ (DedupApplied /\ ret.n = 1 /\ UniqueIds(arg.s)) => ret.out = arg.s

\* deduplicateStreams has run twice on an input with a repeated id and two
\* ids
C6_Witness ==
    /\ DedupApplied
    /\ ret.n = 2
    /\ ~UniqueIds(arg.s)
    /\ Len(ret.out) = 2

\* C7: the first head fetch that resolves while no cursor is set creates no
\* packet, sets the cursor to the fetched head, sets connectionInfo.status
\* to connected and asks for no block; no packet exists before the cursor
\* is set.
C7_FirstTick ==
    [][/\ lastBlockNumberRef = 0 => streams = <<>>
       /\ (event'.name = "getBlockNumber resolved" /\ lastBlockNumberRef = 0) =>
             /\ streams' = <<>>
             /\ lastBlockNumberRef' = event'.number
             /\ connectionInfo'.status = "connected"
             /\ awaitingBlock' = awaitingBlock
             /\ stats' = stats]_vars

\* the initial fetch has resolved: head 1 is the cursor, nothing else ran
C7_Witness ==
    /\ event.name = "getBlockNumber resolved"
    /\ event.number = 1
    /\ chainHead = 1
    /\ lastBlockNumberRef = 1
    /\ connectionInfo.status = "connected"
    /\ streams = <<>>
    /\ TotalSuspended = 0
    /\ now = StartTime

\* the transactions of a block that an ingestion considers
considered(txs) == SubSeq(txs, 1, Min(Len(txs), MAX_TX_PER_BLOCK))

\* C8 (as claimed): a tick whose getBlock resolves leaves a packet for every
\* considered transaction of the head block, every packet it adds is
\* streamed with confirmations 0 and lastStageTime = timestamp, the cursor
\* is the head, and stats.latestBlockNumber is the head whatever the block
\* contains.
C8_NewBlockIngestion ==
    [][event'.name = "getBlock resolved" =>
          /\ \A k \in 1..Len(considered(event'.value)) :
                txId(considered(event'.value)[k], now, k - 1) \in idsOf(streams')
          /\ \A j \in 1..Len(streams') :
                streams'[j].id \notin idsOf(streams) =>
                    /\ streams'[j].status = "streamed"
                    /\ streams'[j].confirmations = 0
                    /\ streams'[j].lastStageTime = streams'[j].timestamp
                    /\ streams'[j].timestamp = now
          /\ lastBlockNumberRef' = event'.number
          /\ stats'.latestBlockNumber = event'.number]_vars

\* C9 (as claimed): a progression tick at time t on a collection of unique
\* ids within capacity moves every non-finalized packet with
\* t - lastStageTime >= STAGE_DURATION to the successor status with
\* lastStageTime = t and confirmations + 1, whatever its lastStageTime
\* (0 included), and leaves every other non-finalized packet unchanged.
C9_StageGate ==
    (ProgressionApplied /\ ret.n = 1 /\ UniqueIds(arg.s) /\ Len(arg.s) <= MAX_STREAMS) =>
        /\ Len(ret.out) = Len(arg.s)
        /\ \A i \in 1..Len(arg.s) :
              arg.s[i].status # "finalized" =>
                  IF arg.t - arg.s[i].lastStageTime >= STAGE_DURATION
                  THEN ret.out[i] = [arg.s[i] EXCEPT
                                        !.status = successor(arg.s[i].status),
                                        !.lastStageTime = arg.t,
                                        !.confirmations = arg.s[i].confirmations + 1]
                  ELSE ret.out[i] = arg.s[i]

\* C10 (as claimed): a progression tick on a collection of unique ids that
\* is larger than MAX_STREAMS and holds a finalized packet removes a
\* finalized packet and leaves MAX_STREAMS packets.
C10_OverflowClamp ==
    (/\ ProgressionApplied /\ ret.n = 1 /\ UniqueIds(arg.s)
     /\ Len(arg.s) > MAX_STREAMS
     /\ \E i \in 1..Len(arg.s) : arg.s[i].status = "finalized") =>
        /\ \E i \in 1..Len(arg.s) :
              /\ arg.s[i].id \notin idsOf(ret.out)
              /\ progressStream(arg.s[i], arg.t).status = "finalized"
        /\ Len(ret.out) = MAX_STREAMS

Rejections == {"getBlockNumber rejected", "getBlock rejected"}

Completions == {"getBlockNumber resolved", "getBlock resolved"} \cup Rejections

\* C11: when getBlockNumber or getBlock rejects in the polling engine, the
\* catch block sets connectionInfo to error with the caught message and
\* nothing else: the collection, the stats, the counters and the cursor are
\* as before, the run ends there, and blockFetchInterval stays armed.  The
\* stretch of the same tick before its getBlock (head above the cursor)
\* changes none of them either.
C11_FetchFailure ==
    [][/\ event'.name \in Rejections =>
             /\ connectionInfo' = [connectionInfo EXCEPT
                                       !.status = "error",
                                       !.error = Some(event'.value[1])]
             /\ UNCHANGED <<streams, stats, lastBlockNumberRef, txCounterRef,
                            lastUpdateTimeRef, intervals>>
             /\ "blockFetchInterval" \in intervals'
             /\ TotalSuspended' = TotalSuspended - 1
       /\ (event'.name = "getBlockNumber resolved" /\ awaitingBlock' # awaitingBlock) =>
             UNCHANGED <<streams, stats, lastBlockNumberRef, connectionInfo>>]_vars

\* a full-block fetch has just failed while packets and stats were present
C11_Witness ==
    /\ event.name = "getBlock rejected"
    /\ connectionInfo.status = "error"
    /\ connectionInfo.error = Some("HTTP request failed")
    /\ streams # <<>>
    /\ stats.latestBlockNumber = 2
    /\ lastBlockNumberRef = 2
    /\ "blockFetchInterval" \in intervals

\* C12 (as claimed): a tick that starts while connectionInfo.status is
\* error and whose block-source calls all succeed leaves the status
\* connected, whether the head is above the cursor (getBlock resolves) or
\* not (getBlockNumber resolves and no getBlock is started).
C12_Recovery ==
    [][/\ (connectionInfo.status = "error" /\ event'.name = "getBlock resolved") =>
             connectionInfo'.status = "connected"
       /\ (/\ event.name = "blockFetchInterval"
           /\ TotalSuspended = 1
           /\ connectionInfo.status = "error"
           /\ event'.name = "getBlockNumber resolved"
           /\ awaitingBlock' = awaitingBlock) =>
             connectionInfo'.status = "connected"]_vars

\* C14 (as claimed): once the cleanup function has run, a fetch that
\* settles changes none of the collection, the stats, connectionInfo and
\* the cursor.
C14_LateResultIgnored ==
    [][(~mounted /\ event'.name \in Completions) =>
          UNCHANGED <<streams, stats, connectionInfo, lastBlockNumberRef>>]_vars

\* C13 (as claimed): in the websocket engine as in the polling engine, a
\* getBlockNumber or getBlock that rejects, in pollBlocks or in onBlock,
\* leaves connectionInfo.status at error with the caught message.
C13_FailureSurfaced ==
    [][event'.name \in Rejections =>
          /\ connectionInfo'.status = "error"
          /\ connectionInfo'.error = Some(event'.value[1])]_vars

TimerEvents == {"blockFetchInterval", "pollInterval", "progressionInterval",
                "statsInterval"}

\* C15 (as claimed): once the cleanup function has run, no interval is
\* armed, no interval callback runs, and the subscription is not open,
\* whenever the cleanup ran.
C15_TeardownCancels ==
    [][~mounted' =>
          /\ intervals' = {}
          /\ unwatch' # "watching"
          /\ event'.name \notin TimerEvents \cup {"onBlock"}]_vars

addedTo(prev) ==
    LET existingIds == idsOf(prev)
        keep(p) == p.id \notin existingIds
    IN  deduplicateStreams(SelectSeq(newStreamsOf(Block(2, arg.txs), arg.ti), keep))

\* C17: an ingestion write and a progression tick, each applied to the
\* collection the other left, give in both orders a collection of unique
\* ids within capacity, in which every added packet within capacity is
\* present and every packet that the tick advanced and that is still there
\* has the status, lastStageTime and confirmations the tick gave it.
C17_AtomicTicks ==
    (ret # NoArg /\ ret.n = 2 /\ ret.fn \in {"ingest-then-progress", "progress-then-ingest"}) =>
        /\ UniqueIds(ret.out)
        /\ Len(ret.out) <= MAX_STREAMS
        /\ ret.fn = "ingest-then-progress" =>
              /\ \A k \in 1..Min(Len(addedTo(arg.s)), MAX_STREAMS) :
                     addedTo(arg.s)[k].id \in idsOf(ret.out)
              /\ Len(ret.out) = Len(ret.first)
              /\ \A i \in 1..Len(ret.first) :
                     ret.out[i] = progressStream(ret.first[i], arg.t)
        /\ ret.fn = "progress-then-ingest" =>
              /\ \A k \in 1..Min(Len(addedTo(ret.first)), MAX_STREAMS) :
                     ret.out[k] = addedTo(ret.first)[k]
              /\ Len(ret.out) = Min(Len(addedTo(ret.first)) + Len(ret.first), MAX_STREAMS)
              /\ Len(ret.first) = Len(arg.s)
              /\ \A i \in 1..Len(arg.s) :
                     /\ ret.first[i] = progressStream(arg.s[i], arg.t)
                     /\ arg.s[i].id \in idsOf(ret.out) => \E j \in 1..Len(ret.out) :
                                                            ret.out[j] = ret.first[i]

\* the tick advanced a packet, then the ingestion added one in front of it
C17_Witness ==
    /\ ret # NoArg
    /\ ret.fn = "progress-then-ingest"
    /\ Len(arg.s) = 2
    /\ arg.s[1].status = "streamed"
    /\ arg.s[1].lastStageTime = 100
    /\ Len(ret.out) = MAX_STREAMS
    /\ ret.out[1].status = "streamed"
    /\ ret.out[1].id \notin idsOf(arg.s)
    /\ ret.out[2].id = arg.s[1].id
    /\ ret.out[2].status = "indexed"
    /\ ret.out[2].lastStageTime = arg.t

\* the indices of `before` whose packet is no longer in `after`
removedFrom(before, after) == {i \in 1..Len(before) : before[i].id \notin idsOf(after)}

\* eviction order on `before` (statuses as they are when the packet is
\* dropped; a higher index was inserted earlier): a dropped non-finalized
\* packet leaves no finalized packet behind, a dropped finalized packet
\* leaves no finalized packet inserted before it, and without finalized
\* packets the dropped ones are the earliest inserted
EvictionOrder(before, after) ==
    LET removed == removedFrom(before, after)
        kept == (1..Len(before)) \ removed
        fin == {i \in 1..Len(before) : before[i].status = "finalized"}
    IN  /\ (\E i \in removed : i \notin fin) => kept \cap fin = {}
        /\ \A i \in removed \cap fin : \A j \in fin : j > i => j \in removed
        /\ fin = {} => \A i \in removed : \A j \in 1..Len(before) : j > i => j \in removed

\* C18: whenever the truncation of an ingestion write or the eviction of a
\* progression tick drops packets, finalized packets go before
\* non-finalized ones, the earliest inserted finalized packet first, and
\* with no finalized packet the earliest inserted packet goes.  Stated for
\* every step of the polling engine and for the progression tick applied to
\* collections above capacity.
C18_EvictionPreference ==
    /\ [][IF event'.name = "getBlock resolved"
           THEN LET new == newStreamsOf(Block(event'.number, event'.value), now)
                    keep(p) == p.id \notin idsOf(streams)
                IN  EvictionOrder(deduplicateStreams(SelectSeq(new, keep)) \o streams,
                                  streams')
           ELSE EvictionOrder(streams, streams')]_vars
    /\ []((ProgressionApplied /\ ret.n = 1 /\ UniqueIds(arg.s)) =>
            LET mapped == [i \in 1..Len(arg.s) |-> progressStream(arg.s[i], arg.t)]
            IN  /\ EvictionOrder(mapped, ret.out)
                /\ Len(arg.s) > MAX_STREAMS => Cardinality(removedFrom(mapped, ret.out)) = 1)

\* two blocks of synthetic ids were ingested 3 stages apart: of the first
\* block's two packets, both finalized by then, the truncation dropped the
\* one at the tail
C18_Witness ==
    /\ arg = NoArg
    /\ event.name = "getBlock resolved"
    /\ event.value = BigBlock
    /\ Len(streams) = MAX_STREAMS
    /\ streams[1].id = <<"tx_", StartTime + 3 * STAGE_DURATION, 0>>
    /\ streams[1].status = "streamed"
    /\ streams[MAX_STREAMS].id = <<"tx_", StartTime, 0>>
    /\ streams[MAX_STREAMS].status = "finalized"

ConversionApplied == ret # NoArg /\ ret.fn = "toStreamPacket"

\* tx.value is present and above 10^16 wei, to the wei
aboveThresholdInWei(tx) ==
    /\ tx.value # Absent
    /\ \/ tx.value[1].units > HighValueThreshold
       \/ tx.value[1].units = HighValueThreshold /\ tx.value[1].rest > 0

\* C19 (as claimed): the packet made from a transaction has eventType
\* "Transfer" exactly when tx.value is above 10^16 wei (0.01 native units),
\* and "Transaction" otherwise, an absent value counting as 0.
C19_TransferThreshold ==
    ConversionApplied =>
        ret.out.eventType = IF aboveThresholdInWei(arg.tx) THEN "Transfer"
                            ELSE "Transaction"

\* C20 (as claimed): the packet made from a transaction without recipient
\* whose value is not above the threshold has eventType "Contract Deploy".
C20_ContractDeploy ==
    (ConversionApplied /\ arg.tx.to = Absent /\ ~aboveThresholdInWei(arg.tx)) =>
        ret.out.eventType = "Contract Deploy"

C24_StatsTick ==
    /\ [][event'.name = "statsInterval" =>
             /\ stats'.updateTime = Some(now \div 1000)
             /\ stats'.latestStream = stats.latestStream
             /\ stats'.streamsPerSecond = stats.streamsPerSecond
             /\ stats'.avgFinalizationTime = stats.avgFinalizationTime
             /\ stats'.latestBlockNumber = stats.latestBlockNumber
             /\ UNCHANGED <<streams, connectionInfo, lastBlockNumberRef, txCounterRef,
                            lastUpdateTimeRef, awaitingHead, awaitingBlock>>]_vars
    /\ []("statsInterval" \in intervals => ENABLED StatsTick)

\* the stats tick has fired before any block was fetched
C24_Witness ==
    /\ arg = NoArg
    /\ event.name = "statsInterval"
    /\ stats.updateTime = Some(1)
    /\ stats.latestBlockNumber = 0
    /\ lastBlockNumberRef = 0
    /\ streams = <<>>

\* C26: in the polling engine, a getBlockNumber that resolves at or below
\* an initialised cursor starts no getBlock and leaves the collection, the
\* stats, the throughput counter and the cursor as they were.
C26_UnchangedHead ==
    [][(/\ event'.name = "getBlockNumber resolved"
        /\ lastBlockNumberRef # 0
        /\ event'.number <= lastBlockNumberRef) =>
          /\ awaitingBlock' = awaitingBlock
          /\ UNCHANGED <<streams, stats, lastBlockNumberRef, txCounterRef,
                         lastUpdateTimeRef>>]_vars

\* a tick found the head still at the cursor, with packets in the collection
C26_Witness ==
    /\ arg = NoArg
    /\ event.name = "getBlockNumber resolved"
    /\ event.number = 2
    /\ lastBlockNumberRef = 2
    /\ stats.latestBlockNumber = 2
    /\ streams # <<>>
    /\ TotalSuspended = 0

RECURSIVE firstOccurrences(_, _)
\* the packets of `rest` whose id is neither in `seen` nor earlier in `rest`
firstOccurrences(seen, rest) ==
    IF rest = <<>> THEN <<>>
    ELSE IF Head(rest).id \in seen
         THEN firstOccurrences(seen, Tail(rest))
         ELSE <<Head(rest)>> \o firstOccurrences(seen \cup {Head(rest).id}, Tail(rest))

\* the packets an ingestion creates, in block order: one per transaction
\* among the first MAX_TX_PER_BLOCK, streamed, stamped with the fetch time
created(txs, t, n) ==
    [k \in 1..Min(Len(txs), MAX_TX_PER_BLOCK) |->
        [ id |-> txId(txs[k], t, k - 1), status |-> "streamed", timestamp |-> t,
          lastStageTime |-> t, confirmations |-> 0, blockNumber |-> n ]]

\* the fields of a packet that `created` describes
core(p) ==
    [ id |-> p.id, status |-> p.status, timestamp |-> p.timestamp,
      lastStageTime |-> p.lastStageTime, confirmations |-> p.confirmations,
      blockNumber |-> p.blockNumber ]

\* C27: an ingestion write that brings at least one new id leaves the first
\* MAX_STREAMS packets of the list made of the new packets (first
\* occurrence of each new id, in block order) followed by the previous
\* collection in its order; what is dropped is the tail of that list.
C27_IngestionOrder ==
    [][event'.name = "getBlock resolved" =>
          LET new == firstOccurrences(idsOf(streams),
                                      created(event'.value, now, event'.number))
              expected == new \o [i \in 1..Len(streams) |-> core(streams[i])]
          IN  new # <<>> =>
                /\ Len(streams') = Min(Len(expected), MAX_STREAMS)
                /\ \A i \in 1..Len(streams') : core(streams'[i]) = expected[i]
                /\ \A i \in (Len(new) + 1)..Len(streams') :
                       streams'[i] = streams[i - Len(new)]]_vars

\* two new packets went in front of two older ones and the last of the
\* older ones was dropped
C27_Witness ==
    /\ arg = NoArg
    /\ event.name = "getBlock resolved"
    /\ event.value = BigBlock
    /\ Len(streams) = MAX_STREAMS
    /\ streams[1].id = <<"tx_", now, 0>>
    /\ streams[2].id = <<"tx_", now, 1>>
    /\ streams[MAX_STREAMS].id = <<"tx_", StartTime, 0>>
    /\ streams[MAX_STREAMS].status = "indexed"
    /\ now = StartTime + STAGE_DURATION

\* C28: an ingestion write leaves every packet whose id stays in the
\* collection exactly as it was, never the freshly streamed packet of the
\* same id, and a write that brings no new id leaves the collection as it
\* was.
C28_NeverOverwrites ==
    [][event'.name = "getBlock resolved" =>
          /\ \A i \in 1..Len(streams) :
                streams[i].id \in idsOf(streams') =>
                    \E j \in 1..Len(streams') : streams'[j] = streams[i]
          /\ (\A k \in 1..Len(created(event'.value, now, event'.number)) :
                 created(event'.value, now, event'.number)[k].id \in idsOf(streams)) =>
                streams' = streams]_vars

\* hash b was ingested, advanced to indexed, and came again in the next
\* block: the indexed packet with its first timestamp is still the one
C28_Witness ==
    /\ arg = NoArg
    /\ event.name = "getBlock resolved"
    /\ event.value = <<txB, txBupper>>
    /\ event.number = 3
    /\ now > StartTime
    /\ Len(streams) = 1
    /\ streams[1].id = <<"b">>
    /\ streams[1].status = "indexed"
    /\ streams[1].timestamp = StartTime
    /\ streams[1].blockNumber = 2

\* C29: a progression tick of the engine keeps the ids and their order and
\* changes of a packet at most status, lastStageTime and confirmations; it
\* leaves stats, connectionInfo, the cursor and the throughput counter as
\* they were and starts no call of the block source.
C29_ProgressionFrame ==
    [][event'.name = "progressionInterval" =>
          /\ Len(streams') = Len(streams)
          /\ \A i \in 1..Len(streams) :
                streams'[i] = [streams[i] EXCEPT
                                  !.status = streams'[i].status,
                                  !.lastStageTime = streams'[i].lastStageTime,
                                  !.confirmations = streams'[i].confirmations]
          /\ UNCHANGED <<stats, connectionInfo, lastBlockNumberRef, txCounterRef,
                         lastUpdateTimeRef, awaitingHead, awaitingBlock>>]_vars

\* a tick has advanced the packets of a full collection
C29_Witness ==
    /\ arg = NoArg
    /\ event.name = "progressionInterval"
    /\ Len(streams) = MAX_STREAMS
    /\ streams[1].status = "indexed"
    /\ streams[1].lastStageTime = now
    /\ streams[1].timestamp = now - STAGE_DURATION
    /\ streams[MAX_STREAMS].status = "consolidated"

\* the list `after` is the list `before` without its element at index i
withoutIndex(before, after, i) ==
    /\ Len(after) = Len(before) - 1
    /\ \A j \in 1..Len(after) : after[j] = IF j < i THEN before[j] ELSE before[j + 1]

\* C30 (as claimed): a progression tick on a collection larger than
\* MAX_STREAMS removes exactly one packet, the most recently inserted
\* finalized one (new packets are prepended, so the finalized packet of
\* lowest index) or, with none, the last element, and keeps the order of
\* the others.
C30_EvictsLatestFinalized ==
    (ProgressionApplied /\ ret.n = 1 /\ Len(arg.s) > MAX_STREAMS) =>
        LET mapped == [i \in 1..Len(arg.s) |-> progressStream(arg.s[i], arg.t)]
            fin == {i \in 1..Len(mapped) : mapped[i].status = "finalized"}
        IN  withoutIndex(mapped, ret.out, IF fin # {} THEN SetMin(fin) ELSE Len(mapped))

\* C30 (amended): a progression tick on a collection larger than
\* MAX_STREAMS removes exactly one packet: the finalized packet of highest
\* index, which is the earliest inserted one, statuses being those after
\* the tick's advancement, or, with no finalized packet, the last element;
\* the other packets keep their order.
C30_EvictsEarliestFinalized ==
    (ProgressionApplied /\ ret.n = 1 /\ Len(arg.s) > MAX_STREAMS) =>
        LET mapped == [i \in 1..Len(arg.s) |-> progressStream(arg.s[i], arg.t)]
            fin == {i \in 1..Len(mapped) : mapped[i].status = "finalized"}
        IN  \E i \in 1..Len(mapped) :
                /\ withoutIndex(mapped, ret.out, i)
                /\ fin # {} => (i \in fin /\ \A j \in fin : j <= i)
                /\ fin = {} => i = Len(mapped)

\* a tick on MAX_STREAMS + 1 packets of which the first and the third are
\* finalized after the advancement: the third is gone, the first stays
C30_Witness ==
    /\ ProgressionApplied
    /\ ret.n = 1
    /\ Len(arg.s) = MAX_STREAMS + 1
    /\ arg.s[1].status = "finalized"
    /\ arg.s[2].status = "streamed"
    /\ arg.s[3].status = "consolidated"
    /\ arg.s[MAX_STREAMS + 1].status = "streamed"
    /\ Len(ret.out) = MAX_STREAMS
    /\ ret.out[1].id = arg.s[1].id
    /\ ret.out[1].status = "finalized"
    /\ arg.s[3].id \notin idsOf(ret.out)

\* C22 (as claimed): an ingestion of a block with transactions raises the
\* throughput counter by the number of packets it adds to the collection
\* (the counter restarts at 0 on a reset), and sets stats.streamsPerSecond
\* to that count over the seconds elapsed since the last reset, to one
\* decimal, or to 0 when no time has elapsed.
C22_ThroughputCount ==
    [][(event'.name = "getBlock resolved" /\ event'.value # <<>>) =>
          LET added == Cardinality(idsOf(streams') \ idsOf(streams))
              elapsedMs == now - lastUpdateTimeRef
          IN  /\ txCounterRef' = IF lastUpdateTimeRef' = lastUpdateTimeRef
                                 THEN txCounterRef + added
                                 ELSE 0
              /\ stats'.streamsPerSecond =
                    IF elapsedMs > 0
                    THEN (2 * (txCounterRef + added) * 10000 + elapsedMs) \div (2 * elapsedMs)
                    ELSE 0]_vars

\* C23 (as claimed): the counter and its time base are reset as soon as
\* 10 s have passed since the previous reset, so the time base an ingestion
\* divides by when it computes streamsPerSecond is at most 10 s old.
C23_WindowReset ==
    [][(event'.name = "getBlock resolved" /\ event'.value # <<>>) =>
          now - lastUpdateTimeRef <= WINDOW]_vars

\* the ids a packet can have in the timed engine
TimedIds ==
    {<<"b">>} \cup {<<"tx_", StartTime + j * TimeUnit, k>> :
                       j \in 0..MaxIngestSteps, k \in 0..(MAX_TX_PER_BLOCK - 1)}

\* the packet of the collection with the given id
packetOf(id) == streams[CHOOSE i \in 1..Len(streams) : streams[i].id = id]

\* the progression timer's instants after time c and up to time t
ticksBetween(c, t) ==
    (t - StartTime) \div PROGRESSION_INTERVAL - (c - StartTime) \div PROGRESSION_INTERVAL

\* C25: with the progression timer firing every 400 ms, every packet that
\* stays in the collection becomes finalized; a step takes it from its
\* status to the same or to the next one in streamed, indexed,
\* consolidated, finalized, never further; and a packet that has seen 4
\* firings of the timer since its creation is finalized.
C25_EventualFinalization ==
    /\ [][\A i \in 1..Len(streams) : \A j \in 1..Len(streams') :
             streams'[j].id = streams[i].id =>
                \/ streams'[j].status = streams[i].status
                \/ statusOrder(streams'[j].status) = statusOrder(streams[i].status) + 1]_vars
    /\ [](\A i \in 1..Len(streams) :
             ticksBetween(streams[i].timestamp, now) >= 4 => streams[i].status = "finalized")
    /\ \A id \in TimedIds :
          (id \in idsOf(streams)) ~>
              (id \notin idsOf(streams) \/ packetOf(id).status = "finalized")

\* a packet created 200 ms before a firing of the timer was left alone by
\* that firing and advanced by the next three: the fourth firing since its
\* creation has just finalized it
C25_Witness ==
    /\ arg = NoArg
    /\ event.name = "progressionInterval"
    /\ streams # <<>>
    /\ streams[1].timestamp = StartTime + TimeUnit
    /\ ticksBetween(streams[1].timestamp, now) = 4
    /\ streams[1].status = "finalized"
    /\ streams[1].lastStageTime = now
    /\ streams[1].confirmations = 3

\* the letters toLowerCase changes
UpperCase == {"A", "B", "C", "D"}

\* C31: after an ingestion the collection holds a packet for every one of
\* the first MAX_TX_PER_BLOCK transactions of the block, under the
\* lower-cased hash or, the hash missing, under tx_<fetch time>_<index>
\* (one id per index); a packet made from a transaction without value has
\* value 0; and no id in the collection has an upper-case letter.
C31_MalformedKept ==
    /\ [][event'.name = "getBlock resolved" =>
             LET txs == event'.value
                 n == Min(Len(txs), MAX_TX_PER_BLOCK)
                 idOf(k) == IF txs[k].hash = Absent
                            THEN <<"tx_", now, k - 1>>
                            ELSE IF txs[k].hash[1] = <<"B">> THEN <<"b">>
                                 ELSE txs[k].hash[1]
             IN  /\ \A k \in 1..n : \E j \in 1..Len(streams') :
                        /\ streams'[j].id = idOf(k)
                        /\ streams'[j].hash = idOf(k)
                        /\ txs[k].value = Absent => streams'[j].data.value = 0
                 /\ \A k, l \in 1..n :
                        (txs[k].hash = Absent /\ txs[l].hash = Absent /\ k # l) =>
                            idOf(k) # idOf(l)]_vars
    /\ [](\A i \in 1..Len(streams) : \A c \in UpperCase : streams[i].id # <<c>>)

\* a block of transactions without hash, value, sender or recipient was
\* ingested: its first two are in the collection under their synthetic ids
\* with the fallback values
C31_Witness ==
    /\ arg = NoArg
    /\ event.name = "getBlock resolved"
    /\ event.value = BigBlock
    /\ Len(streams) >= 2
    /\ streams[1].id = <<"tx_", now, 0>>
    /\ streams[2].id = <<"tx_", now, 1>>
    /\ streams[1].data.value = 0
    /\ streams[1].source = "0x0"
    /\ streams[1].data.to = "Contract Creation"
    /\ streams[1].eventType = "Transaction"
    /\ streams[2].timestamp = now

\* the rearrangements of the sequence s
permutationsOf(s) ==
    {[i \in 1..Len(s) |-> s[f[i]]] :
        f \in {g \in [1..Len(s) -> 1..Len(s)] : \A i, j \in 1..Len(s) : g[i] = g[j] => i = j}}

\* the status of the packet of `id` in the sequence s of unique ids
statusIn(s, id) == s[SetMin(occurrences(s, id))].status

\* C32: deduplicateStreams gives, for every rearrangement of its input, the
\* same ids with the same status per id, which is the greatest status the
\* input has for that id, and its output lists the ids in the order of
\* their first occurrence in the input.
C32_DedupOrderIndependence ==
    (DedupApplied /\ ret.n = 1) =>
        /\ \A q \in permutationsOf(arg.s) :
              LET out == deduplicateStreams(q)
              IN  /\ idsOf(out) = idsOf(ret.out)
                  /\ \A id \in idsOf(out) : statusIn(out, id) = statusIn(ret.out, id)
        /\ \A id \in idsOf(arg.s) :
              \A i \in occurrences(arg.s, id) :
                  statusOrder(arg.s[i].status) <= statusOrder(statusIn(ret.out, id))
        /\ \A k, l \in 1..Len(ret.out) :
              k < l => SetMin(occurrences(arg.s, ret.out[k].id))
                          < SetMin(occurrences(arg.s, ret.out[l].id))

\* b streamed, a indexed, b finalized: b comes first in the result, as in
\* the input, with the status finalized of its later packet
C32_Witness ==
    /\ DedupApplied
    /\ ret.n = 1
    /\ Len(arg.s) = 3
    /\ arg.s[1].id = <<"b">> /\ arg.s[1].status = "streamed"
    /\ arg.s[2].id = <<"a">> /\ arg.s[2].status = "indexed"
    /\ arg.s[3].id = <<"b">> /\ arg.s[3].status = "finalized"
    /\ Len(ret.out) = 2
    /\ ret.out[1] = arg.s[3]
    /\ ret.out[2] = arg.s[2]

\* C33 (as claimed): in every reachable state of the websocket engine a
\* packet nearer the head of the collection has a creation timestamp
\* greater than or equal to that of every packet nearer the tail, also when
\* several onBlock runs await getBlock at once and resolve in any order.
C33_NewestFirst ==
    \A i, j \in 1..Len(streams) : i < j => streams[i].timestamp >= streams[j].timestamp

\* C34: in every reachable state of the polling engine every packet has
\* confirmations 0 when streamed, 1 when indexed, 2 when consolidated and 3
\* when finalized, so confirmations is never above 3.
C34_ConfirmationsTrackStage ==
    \A i \in 1..Len(streams) :
        /\ streams[i].confirmations =
              CASE streams[i].status = "streamed" -> 0
                [] streams[i].status = "indexed" -> 1
                [] streams[i].status = "consolidated" -> 2
                [] streams[i].status = "finalized" -> 3
        /\ streams[i].confirmations <= 3

\* a full collection after a tick: a finalized packet with 3 confirmations
\* at the tail and a packet just indexed, with 1, at the head
C34_Witness ==
    /\ arg = NoArg
    /\ event.name = "progressionInterval"
    /\ Len(streams) = MAX_STREAMS
    /\ streams[MAX_STREAMS].status = "finalized"
    /\ streams[MAX_STREAMS].confirmations = 3
    /\ streams[1].status = "indexed"
    /\ streams[1].confirmations = 1
    /\ streams[1].lastStageTime = now

\* C35 (as claimed): in the polling engine, the chain head never going
\* down, no step lowers the cursor, overlapping runs of
\* fetchAndProcessBlock included, and a block is ingested only when it lies
\* above the cursor, so no block is ingested twice.
C35_CursorMonotonic ==
    [][/\ chainHead' >= chainHead => lastBlockNumberRef' >= lastBlockNumberRef
       /\ event'.name = "getBlock resolved" => event'.number > lastBlockNumberRef]_vars

\* C36: in every reachable state of the polling engine the statuses do not
\* decrease from the head of the collection to its tail: of two packets
\* the one nearer the head is at the same stage or an earlier one.
C36_StatusesSorted ==
    \A i, j \in 1..Len(streams) :
        i < j => statusOrder(streams[i].status) <= statusOrder(streams[j].status)

\* two packets just ingested, streamed, in front of a packet of an earlier
\* block that three ticks have finalized
C36_Witness ==
    /\ arg = NoArg
    /\ event.name = "getBlock resolved"
    /\ Len(streams) = MAX_STREAMS
    /\ streams[1].status = "streamed"
    /\ streams[1].timestamp = now
    /\ streams[MAX_STREAMS].status = "finalized"
    /\ streams[MAX_STREAMS].timestamp < now

\* C37: in the polling engine a progression tick starts with at most
\* MAX_STREAMS packets and removes none, and a step after which a packet of
\* the collection is gone is an ingestion write.
C37_EvictionUnreachable ==
    /\ [][event'.name = "progressionInterval" =>
             /\ Len(streams) <= MAX_STREAMS
             /\ Len(streams') = Len(streams)
             /\ idsOf(streams') = idsOf(streams)]_vars
    /\ [][(idsOf(streams) \ idsOf(streams') # {}) => event'.name = "getBlock resolved"]_vars

\* a tick ran over a full collection holding a finalized packet, which is
\* what the overflow branch would remove, and all packets are still there
C37_Witness ==
    /\ arg = NoArg
    /\ event.name = "progressionInterval"
    /\ Len(streams) = MAX_STREAMS
    /\ streams[MAX_STREAMS].status = "finalized"
    /\ streams[MAX_STREAMS].timestamp < now
    /\ streams[1].status = "streamed"
    /\ streams[1].timestamp = now

\* C38 (as claimed): in the websocket engine, whatever the number of
\* reports to onError, at most one timer of setInterval(pollBlocks, 500) is
\* armed and pollInterval holds its handle: no timer is armed without
\* handle.
C38_SinglePoller ==
    /\ Cardinality(intervals \cap {"pollInterval", LeakedPollInterval}) <= 1
    /\ LeakedPollInterval \notin intervals

\* C39 (as claimed): in every reachable state, connectionInfo.error is
\* absent whenever connectionInfo.status is connected or polling; a message
\* is present only while the status is error.
C39_ErrorFollowsStatus ==
    /\ connectionInfo.status \in {"connected", "polling"} => connectionInfo.error = Absent
    /\ connectionInfo.error # Absent => connectionInfo.status = "error"

====
